---------------------------- MODULE Spec2Model ----------------------------
(***************************************************************************)
(* OBB collision and first-person movement core of the campus walkthrough. *)
(*                                                                         *)
(* Three scene variants share the core: src/main.js ("main"),              *)
(* src/public/SHD.js ("SHD") and src/unnamed/part_000 ("part").            *)
(*                                                                         *)
(* Numbers.  Lengths are integers in 1/1000 of a world unit, velocities in *)
(* 1/1000 unit per second, frame deltas in milliseconds, the bunny-hop     *)
(* multiplier in 1/1000.  A product that leaves this grid is rounded       *)
(* toward zero (TruncDiv).  The unit axes of an OBB are integer vectors of *)
(* length AxisUnit, so that a rotation with rational sine and cosine is    *)
(* exact; the SAT inequality is homogeneous in the axis length.            *)
(***************************************************************************)
EXTENDS Integers, Sequences, FiniteSets, TLC

VARIABLES
    variant,            \* which scene file runs: "main", "SHD" or "part"
    activeControls,     \* "orbit" or "fps"
    camPos,             \* camera.position
    yaw,                \* camera facing (set by lookAt / pointer lock)
    move,               \* move.forward / backward / left / right
    isRunning,
    jumpPressed,        \* SHD, part: jump button held
    canJump,
    verticalVelocity,
    bunnyHopMultiplier,
    playerOBB,          \* NoOBB until initializePlayerOBB
    collisionOBBs,      \* the collision registry, in insertion order
    cameraShake,        \* intensity, frequency, currentLandShake
    movementState,      \* wasOnGround, landingVelocity
    frame,              \* history of the last animate() call (not program state)
    lastLog,            \* what the KeyI handler last wrote to the console
    debugColliders,     \* window.DEBUG_COLLIDERS
    debugMeshes,        \* main, part: the debug meshes, beside the registry
    visibleDebugMeshes, \* SHD: the map from an OBB to its debug mesh
    sceneChildren,      \* the debug meshes that are children of the scene
    meshesMade,         \* how many debug meshes createDebugMesh has built
    tweens,             \* SHD: the view tweens in flight, oldest first
    isTweeningCamera,
    orbitEnabled,       \* orbitControls.enabled
    currentAreaName,
    areaPrompt,         \* style.display, style.opacity and textContent
    pending             \* callbacks of updateAreaPrompt not yet run

debugVars == <<debugColliders, debugMeshes, visibleDebugMeshes, sceneChildren,
               meshesMade>>

tweenVars == <<tweens, isTweeningCamera, orbitEnabled>>

promptVars == <<currentAreaName, areaPrompt, pending>>

vars == <<variant, activeControls, camPos, yaw, move, isRunning, jumpPressed,
          canJump, verticalVelocity, bunnyHopMultiplier, playerOBB,
          collisionOBBs, cameraShake, movementState, frame, lastLog,
          debugVars, tweenVars, promptVars>>

----------------------------------------------------------------------------
(* Arithmetic and vectors                                                  *)

Abs(a) == IF a < 0 THEN -a ELSE a

Min(a, b) == IF a < b THEN a ELSE b

\* a / b rounded toward zero, b > 0
TruncDiv(a, b) == IF a >= 0 THEN a \div b ELSE -((-a) \div b)

Vec(a, b, c) == [x |-> a, y |-> b, z |-> c]

ZeroVec == Vec(0, 0, 0)

AddVec(a, b) == Vec(a.x + b.x, a.y + b.y, a.z + b.z)

SubVec(a, b) == Vec(a.x - b.x, a.y - b.y, a.z - b.z)

ScaleVec(a, k) == Vec(a.x * k, a.y * k, a.z * k)

Dot(a, b) == a.x * b.x + a.y * b.y + a.z * b.z

Cross(a, b) == Vec(a.y * b.z - a.z * b.y, a.z * b.x - a.x * b.z, a.x * b.y - a.y * b.x)

LengthSq(a) == Dot(a, a)

----------------------------------------------------------------------------
(* Scene constants of the three variants                                   *)

Variants == {"main", "SHD", "part"}

HasEyeHeight == variant # "main"

baseSpeed == CASE variant = "main" -> 4000 [] variant = "SHD" -> 5000 [] OTHER -> 6000

runSpeed == CASE variant = "main" -> 8000 [] variant = "SHD" -> 10000 [] OTHER -> 12000

gravity == IF variant = "main" THEN -20000 ELSE -18000

jumpStrength == IF variant = "SHD" THEN 5500 ELSE 6000

flyVelocity == 15000

maxBunnyHop == 3000

isCrouching == FALSE

crouchOffset == -700

groundHeight == IF variant = "main" THEN -500 ELSE 1850

playerRadius == IF variant = "main" THEN 400 ELSE 300

playerHeight == IF variant = "main" THEN 1200 ELSE 1500

cameraEyeHeight == 1350

playerFeetOffset == 50

InitialCanJump == variant = "main"

\* camera.position.set(...) in activateFPSControls
FPSSpawn ==
    CASE variant = "main" -> Vec(150000, 5000, 0)
      [] variant = "SHD" -> Vec(172000, 1850, 0)
      [] OTHER -> Vec(168640, 1850, 0)

\* camera.position.set(...) at construction
InitialCamera ==
    CASE variant = "main" -> Vec(250000, 20000, 0)
      [] variant = "SHD" -> Vec(280000, 60000, 100000)
      [] OTHER -> Vec(250000, 65000, 100000)

\* camera.position.set(...) in activateOrbitControls (main.js leaves the camera)
OrbitHome ==
    CASE variant = "main" -> camPos
      [] variant = "SHD" -> Vec(280000, 60000, 100000)
      [] OTHER -> Vec(300000, 105000, 0)

----------------------------------------------------------------------------
(* OBB primitive                                                           *)

AxisUnit == 5

\* OBB.updateAxes: the images of (1,0,0), (0,1,0), (0,0,1) under the rotation.
\* "yaw345" is the rotation about Y with cos = 3/5 and sin = 4/5, "pitch345"
\* the rotation about X with the same angle.
updateAxes(rotation) ==
    CASE rotation = "identity" ->
            <<Vec(AxisUnit, 0, 0), Vec(0, AxisUnit, 0), Vec(0, 0, AxisUnit)>>
      [] rotation = "yaw345" ->
            <<Vec(3, 0, -4), Vec(0, AxisUnit, 0), Vec(4, 0, 3)>>
      [] rotation = "pitch345" ->
            <<Vec(AxisUnit, 0, 0), Vec(0, 3, 4), Vec(0, -4, 3)>>

\* new OBB(center, extents, rotation)
OBB(center, extents, rotation) ==
    [center |-> center, extents |-> extents, rotation |-> rotation,
     axes |-> updateAxes(rotation)]

NoOBB == [none |-> TRUE]

\* OBB.getProjectedRadius, times AxisUnit * |axis|
getProjectedRadius(obb, axis) ==
    Abs(Dot(obb.axes[1], axis)) * obb.extents.x +
    Abs(Dot(obb.axes[2], axis)) * obb.extents.y +
    Abs(Dot(obb.axes[3], axis)) * obb.extents.z

\* OBB.testSeparatingAxis: TRUE when the axis does not separate the boxes
testSeparatingAxis(this, axis, other, separation) ==
    LET projectedSeparation == Abs(Dot(separation, axis))
        projectedThis == getProjectedRadius(this, axis)
        projectedOther == getProjectedRadius(other, axis)
    IN  AxisUnit * projectedSeparation <= projectedThis + projectedOther

\* the cross-product axes of OBB.intersectsOBB: tested when the squared length
\* exceeds 0.0001 for unit axes, AxisUnit^4 / 10000 for axes of length AxisUnit
TestCrossAxis(this, crossAxis, other, separation) ==
    LengthSq(crossAxis) * 10000 > AxisUnit * AxisUnit * AxisUnit * AxisUnit
    => testSeparatingAxis(this, crossAxis, other, separation)

\* the axes of this box alone
OwnAxesOnly(this, other, separation) ==
    \A i \in 1..3 : testSeparatingAxis(this, this.axes[i], other, separation)

\* the 15 axis tests of OBB.intersectsOBB
NoSeparatingAxis(this, other, separation) ==
    /\ \A i \in 1..3 : testSeparatingAxis(this, this.axes[i], other, separation)
    /\ \A j \in 1..3 : testSeparatingAxis(this, other.axes[j], other, separation)
    /\ \A i \in 1..3, j \in 1..3 :
          TestCrossAxis(this, Cross(this.axes[i], other.axes[j]), other, separation)

\* OBB.intersectsOBB
intersectsOBB(this, other) ==
    NoSeparatingAxis(this, other, SubVec(other.center, this.center))

\* the containment test with the boundary left out
containsPointStrictly(obb, point) ==
    LET localPoint == SubVec(point, obb.center)
        extents == <<obb.extents.x, obb.extents.y, obb.extents.z>>
    IN  \A i \in 1..3 : Abs(Dot(localPoint, obb.axes[i])) < AxisUnit * extents[i]

\* OBB.containsPoint; the projection on an axis of length AxisUnit is
\* AxisUnit times the projection on the unit axis
containsPoint(obb, point) ==
    LET localPoint == SubVec(point, obb.center)
        extents == <<obb.extents.x, obb.extents.y, obb.extents.z>>
    IN  \A i \in 1..3 : ~(Abs(Dot(localPoint, obb.axes[i])) > AxisUnit * extents[i])

----------------------------------------------------------------------------
(* Player collision body and collision queries                             *)

\* the y of the centre of the player's box for a camera at height y
PlayerCenterY(y) ==
    IF HasEyeHeight THEN (y - cameraEyeHeight) + playerHeight \div 2
    ELSE y + playerHeight \div 2

\* initializePlayerOBB (main.js copies the camera position unshifted)
initializePlayerOBB ==
    LET playerExtents == Vec(playerRadius, playerHeight \div 2, playerRadius)
        playerCenter == IF HasEyeHeight
                        THEN Vec(camPos.x, PlayerCenterY(camPos.y), camPos.z)
                        ELSE camPos
    IN  OBB(playerCenter, playerExtents, "identity")

\* updatePlayerOBB: the body after the update
updatePlayerOBB(body, pos) ==
    IF body = NoOBB THEN body
    ELSE [body EXCEPT !.center = Vec(pos.x, PlayerCenterY(pos.y), pos.z),
                      !.axes = updateAxes(body.rotation)]

\* the loop of the collision queries over the registry
IntersectedBy(testOBB, registry) ==
    {i \in 1..Len(registry) : intersectsOBB(testOBB, registry[i])}

\* the horizontal query without its guard, for a body of the player's size
checkHorizontalWithoutBody(body, registry, position) ==
    \E i \in 1..Len(registry) :
        intersectsOBB(OBB(Vec(position.x, PlayerCenterY(position.y), position.z),
                          Vec(playerRadius, playerHeight \div 2, playerRadius),
                          "identity"),
                      registry[i])

\* checkHorizontalCollisionOBB(position)
checkHorizontalCollisionOBB(body, registry, position) ==
    IF body = NoOBB THEN FALSE
    ELSE \E i \in 1..Len(registry) :
            intersectsOBB(OBB(Vec(position.x, PlayerCenterY(position.y), position.z),
                              body.extents, "identity"),
                          registry[i])

\* the probe volume of checkVerticalCollisionOBB
VerticalTestOBB(body, position, direction) ==
    IF HasEyeHeight
    THEN LET playerFeetY == position.y - cameraEyeHeight
             testY == IF direction = "up" THEN playerFeetY + playerHeight + 100
                      ELSE playerFeetY
         IN  OBB(Vec(position.x, testY, position.z),
                 Vec(playerRadius, 100, playerRadius), "identity")
    ELSE LET testHeight == IF direction = "up"
                           THEN position.y + TruncDiv(playerHeight, 10)
                           ELSE position.y
         IN  OBB(Vec(position.x, testHeight + playerHeight \div 2, position.z),
                 body.extents, "identity")

\* the registry entries the probe intersects
VerticalHits(body, registry, position, direction) ==
    IntersectedBy(VerticalTestOBB(body, position, direction), registry)

\* ceilingY (up) or floorY (down) of the registry entries the probe intersects
Surfaces(registry, hits, direction) ==
    {IF direction = "up" THEN registry[i].center.y - registry[i].extents.y
     ELSE registry[i].center.y + registry[i].extents.y : i \in hits}

\* the opposite choice: highest ceiling, lowest floor
FarthestHeight(surfaces, direction) ==
    IF direction = "up"
    THEN CHOOSE ceilingY \in surfaces : \A other \in surfaces : ceilingY >= other
    ELSE CHOOSE floorY \in surfaces : \A other \in surfaces : floorY <= other

\* lowest ceiling (up) or highest floor (down) among the hits
ClosestHeight(surfaces, direction) ==
    IF direction = "up"
    THEN CHOOSE ceilingY \in surfaces : \A other \in surfaces : ceilingY <= other
    ELSE CHOOSE floorY \in surfaces : \A other \in surfaces : floorY >= other

\* the return value of checkVerticalCollisionOBB on a hit; the surfaces of the
\* entries hit are kept beside it
VerticalHit(closestHeight, surfaces, direction) ==
    [collision |-> TRUE, surfaces |-> surfaces,
     height |-> IF ~HasEyeHeight THEN closestHeight
                ELSE IF direction = "up"
                     THEN closestHeight - playerHeight + cameraEyeHeight
                     ELSE closestHeight + cameraEyeHeight + playerFeetOffset]

ClosestSurface(surfaces, direction) ==
    VerticalHit(ClosestHeight(surfaces, direction), surfaces, direction)

VerticalResult(registry, hits, position, direction) ==
    IF hits = {} THEN [collision |-> FALSE, height |-> position.y]
    ELSE ClosestSurface(Surfaces(registry, hits, direction), direction)

\* checkVerticalCollisionOBB(position, direction)
checkVerticalCollisionOBB(body, registry, position, direction) ==
    IF body = NoOBB THEN [collision |-> FALSE, height |-> position.y]
    ELSE VerticalResult(registry, VerticalHits(body, registry, position, direction),
                        position, direction)

\* the sliding candidates of getValidMovementOBB after the full displacement,
\* in the order the code tries them
SlideCandidates(currentPos, desiredPos) ==
    LET deltaX == desiredPos.x - currentPos.x
        deltaZ == desiredPos.z - currentPos.z
        xOnlyPos == Vec(currentPos.x + deltaX, currentPos.y, currentPos.z)
        zOnlyPos == Vec(currentPos.x, currentPos.y, currentPos.z + deltaZ)
        part(d, tenths) == TruncDiv(d * tenths, 10)
        reduced(f) == <<Vec(currentPos.x + part(deltaX, f), currentPos.y,
                            currentPos.z + part(deltaZ, f)),
                        Vec(currentPos.x + part(deltaX, f), currentPos.y, currentPos.z),
                        Vec(currentPos.x, currentPos.y, currentPos.z + part(deltaZ, f))>>
    IN  IF variant = "main"
        THEN <<xOnlyPos, zOnlyPos,
               Vec(currentPos.x + part(deltaX, 5), currentPos.y, currentPos.z),
               Vec(currentPos.x, currentPos.y, currentPos.z + part(deltaZ, 5))>>
        ELSE <<xOnlyPos, zOnlyPos>> \o reduced(8) \o reduced(6) \o reduced(4) \o reduced(2)

\* the desired position, returned untested
AcceptDesired(body, registry, currentPos, candidates) ==
    [pos |-> candidates[1], tried |-> 1, from |-> currentPos]

\* the desired position in place of currentPos when every candidate collides
ReturnDesired(currentPos, candidates, tried) ==
    [pos |-> candidates[IF tried = 0 THEN 1 ELSE tried], tried |-> tried,
     from |-> currentPos]

\* index of the first candidate from k on that is free of collision, 0 if none
RECURSIVE FirstFree(_, _, _, _)
FirstFree(body, registry, candidates, k) ==
    IF k > Len(candidates) THEN 0
    ELSE IF ~checkHorizontalCollisionOBB(body, registry, candidates[k]) THEN k
    ELSE FirstFree(body, registry, candidates, k + 1)

\* what getValidMovementOBB returns when candidate number tried is the first
\* free one: that candidate, or currentPos when there is none (tried = 0)
ReturnCandidate(currentPos, candidates, tried) ==
    [pos |-> IF tried = 0 THEN currentPos ELSE candidates[tried], tried |-> tried,
     from |-> currentPos]

TryCandidates(body, registry, currentPos, candidates) ==
    ReturnCandidate(currentPos, candidates, FirstFree(body, registry, candidates, 1))

\* getValidMovementOBB(currentPos, desiredPos): the position returned (pos),
\* with the number of the candidate taken
getValidMovementOBB(body, registry, currentPos, desiredPos) ==
    TryCandidates(body, registry, currentPos,
                  <<desiredPos>> \o SlideCandidates(currentPos, desiredPos))

----------------------------------------------------------------------------
(* View tweens (SHD.js)                                                    *)

\* frame times, in milliseconds
Deltas == {100}

\* frame times in orbit mode, where only the tweens read the time
OrbitDeltas == {500}

\* the camera positions of the first two of the predefined views
predefinedViews == <<Vec(114540, 45000, -5000), Vec(189790, 38720, -52360)>>

\* the duration of a view tween, in milliseconds
tweenDuration == 1500

\* TWEEN.Easing.Quadratic.InOut at elapsed / tweenDuration, in 1/100
QuadraticInOut(elapsed) ==
    IF 2 * elapsed < tweenDuration
    THEN TruncDiv(200 * elapsed * elapsed, tweenDuration * tweenDuration)
    ELSE TruncDiv(50 * (tweenDuration * tweenDuration
                          + (2 * elapsed - tweenDuration) * (3 * tweenDuration - 2 * elapsed)),
                  tweenDuration * tweenDuration)

\* the position a tween hands to its onUpdate callback
TweenValue(tween) ==
    LET eased(a, b) == a + TruncDiv((b - a) * QuadraticInOut(tween.elapsed), 100)
    IN  Vec(eased(tween.from.x, tween.to.x), eased(tween.from.y, tween.to.y),
            eased(tween.from.z, tween.to.z))

\* the tweens in flight after delta more milliseconds
Advanced(delta) ==
    [i \in 1..Len(tweens) |->
        [tweens[i] EXCEPT !.elapsed = Min(tweens[i].elapsed + delta, tweenDuration)]]

\* camera.position after TWEEN.update(): each tween in flight has set it in
\* its onUpdate, the youngest last
TweenedCamera(delta) ==
    IF tweens = <<>> THEN camPos ELSE TweenValue(Advanced(delta)[Len(tweens)])

\* TWEEN.update() at the head of animate(): a tween that reaches its duration
\* runs onComplete and leaves
TweenUpdate(delta) ==
    LET done == \E i \in 1..Len(tweens) : Advanced(delta)[i].elapsed = tweenDuration
    IN  /\ tweens' = SelectSeq(Advanced(delta), LAMBDA tween : tween.elapsed < tweenDuration)
        /\ isTweeningCamera' = IF done THEN FALSE ELSE isTweeningCamera
        /\ orbitEnabled' = IF done THEN TRUE ELSE orbitEnabled

----------------------------------------------------------------------------
(* The area prompt (SHD.js, part_000)                                      *)

\* the name of the one listed area
AreaName == "Academic Block - 2"

\* the listed areas, as createYellowCuboids keeps them
yellowCuboids ==
    <<[min |-> Vec(102000, 400, 5500), max |-> Vec(112000, 800, 9000), name |-> AreaName]>>

\* the delay of the callback that hides the prompt, in milliseconds
hideDelay == 500

\* the name of the first listed area whose XZ rectangle holds pos, or ""
FoundName(pos) ==
    LET holds(cuboid) == /\ pos.x >= cuboid.min.x /\ pos.x <= cuboid.max.x
                         /\ pos.z >= cuboid.min.z /\ pos.z <= cuboid.max.z
        hits == {i \in 1..Len(yellowCuboids) : holds(yellowCuboids[i])}
    IN  IF hits = {} THEN ""
        ELSE yellowCuboids[CHOOSE i \in hits : \A j \in hits : i <= j].name

\* the timeouts not yet run, delta milliseconds later
AgedHide(delta) ==
    [i \in 1..Len(pending.hide) |->
        IF pending.hide[i] > delta THEN pending.hide[i] - delta ELSE 0]

\* the frame of a mode that does not update the prompt: time passes
AgePrompt(delta) ==
    /\ pending' = [pending EXCEPT !.hide = AgedHide(delta)]
    /\ UNCHANGED <<currentAreaName, areaPrompt>>

\* updateAreaPrompt() with the camera at pos, delta after the frame before
updateAreaPrompt(pos, delta) ==
    IF variant = "main" \/ FoundName(pos) = currentAreaName
    THEN AgePrompt(delta)
    ELSE /\ currentAreaName' = FoundName(pos)
         /\ IF FoundName(pos) # ""
            THEN /\ areaPrompt' = [areaPrompt EXCEPT !.textContent = FoundName(pos),
                                                     !.display = "block"]
                 /\ pending' = [show |-> pending.show + 1, hide |-> AgedHide(delta)]
            ELSE /\ areaPrompt' = [areaPrompt EXCEPT !.opacity = "0"]
                 /\ pending' = [show |-> pending.show,
                                hide |-> Append(AgedHide(delta), hideDelay)]

\* the requestAnimationFrame callback of updateAreaPrompt
ShowCallback ==
    /\ pending.show > 0
    /\ areaPrompt' = [areaPrompt EXCEPT !.opacity = "1"]
    /\ pending' = [pending EXCEPT !.show = @ - 1]
    /\ UNCHANGED <<variant, activeControls, camPos, yaw, move, isRunning, jumpPressed,
                   canJump, verticalVelocity, bunnyHopMultiplier, playerOBB,
                   collisionOBBs, cameraShake, movementState, frame, lastLog,
                   debugVars, tweenVars, currentAreaName>>

\* the setTimeout callback of updateAreaPrompt, once its delay has passed
HideCallback ==
    /\ pending.hide # <<>>
    /\ Head(pending.hide) = 0
    /\ areaPrompt' = [areaPrompt EXCEPT !.display = "none"]
    /\ pending' = [pending EXCEPT !.hide = Tail(@)]
    /\ UNCHANGED <<variant, activeControls, camPos, yaw, move, isRunning, jumpPressed,
                   canJump, verticalVelocity, bunnyHopMultiplier, playerOBB,
                   collisionOBBs, cameraShake, movementState, frame, lastLog,
                   debugVars, tweenVars, currentAreaName>>

----------------------------------------------------------------------------
(* Movement resolver: the first-person branch of animate()                 *)

NoMove == [forward |-> FALSE, backward |-> FALSE, left |-> FALSE, right |-> FALSE]

AnyMove == move.forward \/ move.backward \/ move.left \/ move.right

AllMove == move.forward /\ move.backward /\ move.left /\ move.right

\* direction.normalize(), in 1/1000; 707 is 1/sqrt(2)
Direction ==
    LET dz == (IF move.backward THEN 1 ELSE 0) - (IF move.forward THEN 1 ELSE 0)
        dx == (IF move.right THEN 1 ELSE 0) - (IF move.left THEN 1 ELSE 0)
        len == IF dx # 0 /\ dz # 0 THEN 707 ELSE 1000
    IN  [x |-> dx * len, z |-> dz * len]

\* camera.getWorldDirection flattened and normalized is a vector of length
\* AxisUnit; this is the facing camera.rotation.set(0, PI / 2, 0) gives
SpawnFacing == Vec(-AxisUnit, 0, 0)

\* right.crossVectors(forward, (0, 1, 0))
RightOf(forward) == Cross(forward, Vec(0, 1, 0))

\* currentSpeed * delta
MoveDistance(delta) ==
    LET currentSpeed == TruncDiv((IF isRunning THEN runSpeed ELSE baseSpeed)
                                 * bunnyHopMultiplier, 1000)
    IN  TruncDiv(currentSpeed * delta, 1000)

\* desiredPos of animate()
DesiredPos(delta) ==
    LET moveDistance == MoveDistance(delta)
        along(v, k) == Vec(TruncDiv(v.x * k, 1000 * AxisUnit), 0,
                           TruncDiv(v.z * k, 1000 * AxisUnit))
    IN  AddVec(AddVec(TweenedCamera(delta), along(yaw, -Direction.z * moveDistance)),
               along(RightOf(yaw), Direction.x * moveDistance))

\* the boost without its cap
BunnyHopBoostUncapped(m) == TruncDiv(m * 11, 10)

\* Math.min(bunnyHopMultiplier * 1.1, maxBunnyHop)
BunnyHopBoost(m) == Min(TruncDiv(m * 11, 10), maxBunnyHop)

\* the landing rule of the mesh-floor branch
FloorLandingResets ==
    IF variant = "main" THEN ~AnyMove ELSE isRunning /\ ~AllMove

\* the outcome of the head or foot probe (check) at nextPos; probe keeps what
\* the probe met
ClampVertical(pos, vv, nextPos, check) ==
    IF ~check.collision
    THEN [pos |-> nextPos, vv |-> vv, canJump |-> canJump, bhm |-> bunnyHopMultiplier,
          plane |-> FALSE,
          probe |-> [direction |-> IF vv > 0 THEN "up" ELSE "down", surfaces |-> {}]]
    ELSE IF vv > 0
    THEN [pos |-> Vec(pos.x, check.height - playerHeight - 100, pos.z),
          vv |-> 0, canJump |-> canJump, bhm |-> bunnyHopMultiplier, plane |-> FALSE,
          probe |-> [direction |-> "up", surfaces |-> check.surfaces]]
    ELSE [pos |-> Vec(pos.x, check.height, pos.z),
          vv |-> 0, canJump |-> TRUE,
          bhm |-> IF FloorLandingResets THEN 1000 ELSE bunnyHopMultiplier,
          plane |-> FALSE,
          probe |-> [direction |-> "down", surfaces |-> check.surfaces]]

\* the probe at nextPos: the head probe while rising, the foot probe otherwise
ProbeVertical(body, registry, pos, vv, nextPos) ==
    ClampVertical(pos, vv, nextPos,
                  checkVerticalCollisionOBB(body, registry, nextPos,
                                            IF vv > 0 THEN "up" ELSE "down"))

\* verticalVelocity += gravity * delta; nextY = y + verticalVelocity * delta
IntegrateVertical(body, registry, pos, vv, delta) ==
    ProbeVertical(body, registry, pos, vv,
                  Vec(pos.x, pos.y + TruncDiv(vv * delta, 1000), pos.z))

\* the vertical resolution of animate()
VerticalResolution(body, registry, pos, delta) ==
    IntegrateVertical(body, registry, pos,
                      verticalVelocity + TruncDiv(gravity * delta, 1000), delta)

currentGround == IF isCrouching THEN groundHeight + crouchOffset ELSE groundHeight

\* no fallback plane
NoGroundPlane(r) == r

\* the fallback ground plane applied to the result r of VerticalResolution
GroundPlane(r) ==
    IF r.pos.y <= currentGround
    THEN [r EXCEPT !.pos = Vec(r.pos.x, currentGround, r.pos.z), !.vv = 0,
                   !.canJump = TRUE,
                   !.bhm = IF ~AnyMove THEN 1000 ELSE r.bhm,
                   !.plane = TRUE]
    ELSE r

----------------------------------------------------------------------------
(* Feedback layer: camera shake (SHD.js, part_000)                         *)

HasShake == variant # "main"

walkShakeIntensity == 40

sprintShakeIntensity == 80

walkShakeFrequency == 8

sprintShakeFrequency == 12

landShakeIntensity == 80

\* cameraShake.shakeOffset is written by every calculateCameraShake before it
\* is read, so it is a value of the frame and no part of the state
NoShake == [intensity |-> 0, frequency |-> 0, currentLandShake |-> 0]

InitialMovementState == [wasOnGround |-> FALSE, landingVelocity |-> 0]

\* checkLandingShake, for the canJump and verticalVelocity the physics left
checkLandingShake(shake, ms, cj, vv) ==
    LET fallVelocity == Abs(ms.landingVelocity)
        intensity == Min(TruncDiv(fallVelocity * 5, 1000), landShakeIntensity)
    IN  [shake |-> IF ~ms.wasOnGround /\ cj /\ vv <= 0 /\ fallVelocity > 2000
                   THEN [shake EXCEPT !.currentLandShake = intensity]
                   ELSE shake,
         ms |-> [wasOnGround |-> cj, landingVelocity |-> vv]]

\* updateMovementShake
updateMovementShake(shake, cj) ==
    IF AnyMove /\ cj
    THEN [shake EXCEPT
            !.intensity = IF isRunning THEN sprintShakeIntensity ELSE walkShakeIntensity,
            !.frequency = IF isRunning THEN sprintShakeFrequency ELSE walkShakeFrequency]
    ELSE [shake EXCEPT !.intensity = TruncDiv(shake.intensity * 9, 10)]

\* Math.pow(0.01, delta / landShakeDuration) in 1/1000, landShakeDuration = 0.15 s
LandShakeDecay(delta) ==
    CASE delta = 50 -> 215 [] delta = 100 -> 46 [] delta = 200 -> 2 [] OTHER -> 0

\* (sin t, sin 1.3 t, cos 0.8 t) in 1/100 at t = time * frequency = 0 and 3 PI/2
ShakeSamples == {<<0, 0, 100>>, <<-100, -16, -81>>}

\* the samples cameraShake.time * frequency can give: only t = 0 while frequency = 0
SamplesAt(frequency) == IF frequency = 0 THEN {<<0, 0, 100>>} ELSE ShakeSamples

\* calculateCameraShake, in the first-person branch (enabled is never cleared)
calculateCameraShake(shake, delta, sample) ==
    LET landing == shake.currentLandShake > 0
        totalIntensity == shake.intensity + (IF landing THEN shake.currentLandShake ELSE 0)
        decayed == TruncDiv(shake.currentLandShake * LandShakeDecay(delta), 1000)
    IN  [intensity |-> shake.intensity, frequency |-> shake.frequency,
         currentLandShake |-> IF landing THEN decayed ELSE shake.currentLandShake,
         shakeOffset |->
             IF totalIntensity > 0
             THEN Vec(TruncDiv(sample[1] * totalIntensity, 100),
                      TruncDiv(sample[2] * totalIntensity * 7, 1000),
                      TruncDiv(sample[3] * totalIntensity * 5, 1000))
             ELSE ZeroVec]

----------------------------------------------------------------------------
(* Model bounds                                                            *)

\* the walkable square around the first-person spawn, half-width in units
ArenaHalf == 1

InArena(pos) ==
    /\ Abs(pos.x - FPSSpawn.x) <= ArenaHalf * 1000
    /\ Abs(pos.z - FPSSpawn.z) <= ArenaHalf * 1000

----------------------------------------------------------------------------
(* Debug meshes                                                            *)

\* obb.createDebugMesh(): a wireframe box of the OBB's size at its center and
\* rotation; id tells the mesh objects apart, made is how many exist already
createDebugMesh(obb, made) ==
    [position |-> obb.center, size |-> ScaleVec(obb.extents, 2),
     rotation |-> obb.rotation, id |-> made + 1]

\* a debug mesh built for each OBB of obbs, in order
DebugMeshesFor(obbs, made) ==
    [i \in 1..Len(obbs) |-> createDebugMesh(obbs[i], made + i - 1)]

Range(seq) == {seq[i] : i \in 1..Len(seq)}

visibilityRadius == 50000

\* playerPosition.distanceTo(obb.center) <= visibilityRadius, compared in
\* 1/100 of a unit
InRange(position, obb) ==
    LET d == SubVec(position, obb.center)
        coarse == Vec(TruncDiv(d.x, 10), TruncDiv(d.y, 10), TruncDiv(d.z, 10))
    IN  LengthSq(coarse) <= TruncDiv(visibilityRadius, 10) * TruncDiv(visibilityRadius, 10)

\* the place of an OBB in the registry (the Set keeps insertion order)
FirstIndex(registry, obb) ==
    CHOOSE i \in 1..Len(registry) :
        /\ registry[i] = obb
        /\ \A j \in 1..(i - 1) : registry[j] # obb

\* step 3 of updateDynamicDebugOBBs: a mesh for each OBB that came into range
MeshesInRange(registry, kept, arrived, made) ==
    kept \cup
    {[obb |-> obb,
      mesh |-> createDebugMesh(obb,
                   made + Cardinality({o \in arrived :
                                          FirstIndex(registry, o) < FirstIndex(registry, obb)}))] :
        obb \in arrived}

\* every mesh dropped and one built anew for each OBB in range
ShowAfresh(registry, visible, scene, made, inRange) ==
    [visible |-> MeshesInRange(registry, {}, inRange, made),
     scene |-> (scene \ {entry.mesh : entry \in visible})
                   \cup {entry.mesh : entry \in MeshesInRange(registry, {}, inRange, made)},
     made |-> made + Cardinality(inRange)]

\* steps 1 and 2 of updateDynamicDebugOBBs: meshes of OBBs out of range go
ShowInRange(registry, visible, scene, made, inRange) ==
    LET kept == {entry \in visible : entry.obb \in inRange}
        arrived == inRange \ {entry.obb : entry \in kept}
        shown == MeshesInRange(registry, kept, arrived, made)
    IN  [visible |-> shown,
         scene |-> (scene \ {entry.mesh : entry \in visible \ kept})
                       \cup {entry.mesh : entry \in shown},
         made |-> made + Cardinality(arrived)]

\* updateDynamicDebugOBBs() with the camera at position: the map, the scene's
\* debug children and the count of meshes afterwards
updateDynamicDebugOBBs(position) ==
    IF ~debugColliders
    THEN [visible |-> {},
          scene |-> sceneChildren \ {entry.mesh : entry \in visibleDebugMeshes},
          made |-> meshesMade]
    ELSE ShowInRange(collisionOBBs, visibleDebugMeshes, sceneChildren, meshesMade,
                     {collisionOBBs[i] : i \in {j \in 1..Len(collisionOBBs) :
                                                   InRange(position, collisionOBBs[j])}})

\* the call of updateDynamicDebugOBBs in animate(), which only SHD.js makes
DebugOBBs(position) ==
    IF variant = "SHD"
    THEN /\ visibleDebugMeshes' = updateDynamicDebugOBBs(position).visible
         /\ sceneChildren' = updateDynamicDebugOBBs(position).scene
         /\ meshesMade' = updateDynamicDebugOBBs(position).made
         /\ UNCHANGED <<debugColliders, debugMeshes>>
    ELSE UNCHANGED debugVars

\* whether the file declares the debugMeshes array its console functions read:
\* SHD.js does not, and reading the name raises a ReferenceError
DebugMeshesDeclared == variant # "SHD"

\* an addToOBBCollision that builds no debug mesh
PushNoMeshes(obbs) == UNCHANGED debugVars

\* the debug part of addToOBBCollision for the OBBs it pushed
PushDebugMeshes(obbs) ==
    IF DebugMeshesDeclared /\ debugColliders
    THEN /\ debugMeshes' = debugMeshes \o DebugMeshesFor(obbs, meshesMade)
         /\ sceneChildren' = sceneChildren \cup Range(DebugMeshesFor(obbs, meshesMade))
         /\ meshesMade' = meshesMade + Len(obbs)
         /\ UNCHANGED <<debugColliders, visibleDebugMeshes>>
    ELSE UNCHANGED debugVars

\* keydown of KeyB: the flag is toggled; main.js and part_000 then drop every
\* debug mesh and, with the flag on, build one for each registry entry
KeyDownB ==
    /\ debugColliders' = ~debugColliders
    /\ IF DebugMeshesDeclared
       THEN /\ debugMeshes' = IF ~debugColliders
                              THEN DebugMeshesFor(collisionOBBs, meshesMade)
                              ELSE <<>>
            /\ sceneChildren' = (sceneChildren \ Range(debugMeshes)) \cup Range(debugMeshes')
            /\ meshesMade' = meshesMade + Len(debugMeshes')
       ELSE UNCHANGED <<debugMeshes, sceneChildren, meshesMade>>
    /\ UNCHANGED <<variant, activeControls, camPos, yaw, move, isRunning, jumpPressed,
                   canJump, verticalVelocity, bunnyHopMultiplier, playerOBB,
                   collisionOBBs, cameraShake, movementState, frame, lastLog,
                   visibleDebugMeshes, tweenVars, promptVars>>

----------------------------------------------------------------------------
(* animate()                                                               *)

\* the steps of animate() in the order the code runs them
AnimateSteps(mode) ==
    IF mode = "fps"
    THEN (IF HasShake THEN <<"updateAreaPrompt">> ELSE <<>>)
         \o <<"horizontal", "vertical", "groundPlane">>
         \o (IF HasShake THEN <<"cameraShake", "applyShake">> ELSE <<>>)
         \o (IF variant = "SHD" THEN <<"debugOBBs">> ELSE <<>>)
         \o <<"render">>
         \o (IF HasShake THEN <<"removeShake", "jumpOnHold">> ELSE <<>>)
    ELSE <<"orbitUpdate">>
         \o (IF variant = "SHD" THEN <<"debugOBBs">> ELSE <<>>)
         \o <<"render">>
         \o (IF HasShake THEN <<"jumpOnHold">> ELSE <<>>)

NoFrame == [mode |-> "none"]

\* the impulse of a jump, or nothing, for the result headCheck of the head probe
JumpUnless(headCheck, cj, vv, bhm) ==
    IF cj /\ ~headCheck.collision
    THEN [vv |-> jumpStrength, canJump |-> FALSE,
          bhm |-> IF isRunning THEN BunnyHopBoost(bhm) ELSE bhm]
    ELSE [vv |-> vv, canJump |-> cj, bhm |-> bhm]

\* the impulse given without the head probe
JumpWithoutProbe(body, pos, headroom, cj, vv, bhm) ==
    JumpUnless([collision |-> FALSE], cj, vv, bhm)

\* the jump of the Space key, the jump button and the hold-to-jump block:
\* head probe headroom above the camera, then the impulse
TryJump(body, pos, headroom, cj, vv, bhm) ==
    IF ~cj THEN [vv |-> vv, canJump |-> cj, bhm |-> bhm]
    ELSE JumpUnless(checkVerticalCollisionOBB(body, collisionOBBs,
                                              Vec(pos.x, pos.y + headroom, pos.z), "up"),
                    cj, vv, bhm)

\* the hold-to-jump block that ends animate() in SHD.js and part_000
JumpOnHold(body, pos, cj, vv, bhm) ==
    IF HasShake /\ jumpPressed
    THEN TryJump(body, pos, jumpStrength, cj, vv, bhm)
    ELSE [vv |-> vv, canJump |-> cj, bhm |-> bhm]

\* the assignments of a jump
SetJump(jump) ==
    /\ verticalVelocity' = jump.vv
    /\ canJump' = jump.canJump
    /\ bunnyHopMultiplier' = jump.bhm

\* camera.position.add(shakeOffset) before the render call
ApplyShake(pos, shakeOffset) ==
    IF HasShake /\ LengthSq(shakeOffset) > 0 THEN AddVec(pos, shakeOffset) ELSE pos

\* the offset left in the camera position
KeepShake(pos, shakeOffset) == pos

\* camera.position.sub(shakeOffset) after the render call
RemoveShake(pos, shakeOffset) ==
    IF HasShake /\ LengthSq(shakeOffset) > 0 THEN SubVec(pos, shakeOffset) ELSE pos

\* what the frame leaves: the state, and its history
EndFrame(valid, vert, phys, shake, renderPos, endPos, jump) ==
    /\ camPos' = endPos
    /\ DebugOBBs(renderPos)
    /\ SetJump(jump)
    /\ cameraShake' = IF HasShake
                      THEN [intensity |-> shake.intensity, frequency |-> shake.frequency,
                            currentLandShake |-> shake.currentLandShake]
                      ELSE cameraShake
    /\ frame' = [mode |-> "fps", steps |-> AnimateSteps("fps"),
                 start |-> valid.from,
                 promptStale |-> HasShake /\ valid.from # phys.pos,
                 wanted |-> Direction.x # 0 \/ Direction.z # 0,
                 valid |-> valid.pos,
                 moved |-> valid.pos # valid.from,
                 resolution |-> CASE valid.tried = 0 -> "frozen"
                                  [] valid.tried = 1 -> "free"
                                  [] OTHER -> "slide",
                 probe |-> vert.probe,
                 vertical |-> vert.pos,
                 phys |-> [pos |-> phys.pos, vv |-> phys.vv, canJump |-> phys.canJump,
                           plane |-> phys.plane],
                 shaken |-> renderPos # phys.pos,
                 render |-> renderPos,
                 end |-> [pos |-> endPos, vv |-> jump.vv, canJump |-> jump.canJump]]

\* the end of animate(): shake removed, then the hold-to-jump block
AfterRender(body, valid, vert, phys, shake, renderPos, endPos) ==
    EndFrame(valid, vert, phys, shake, renderPos, endPos,
             JumpOnHold(body, endPos, phys.canJump, phys.vv, phys.bhm))

\* shake applied, the frame rendered, shake removed
Render(body, valid, vert, phys, shake, renderPos) ==
    AfterRender(body, valid, vert, phys, shake, renderPos,
                RemoveShake(renderPos, shake.shakeOffset))

\* the shake of this frame for one sample of the oscillators
ShakeAndRender(body, valid, vert, phys, shake) ==
    Render(body, valid, vert, phys, shake, ApplyShake(phys.pos, shake.shakeOffset))

\* updateMovementShake and calculateCameraShake
MovementShake(delta, body, valid, vert, phys, moving) ==
    \E sample \in (IF HasShake THEN SamplesAt(moving.frequency) ELSE {<<0, 0, 100>>}) :
        ShakeAndRender(body, valid, vert, phys, calculateCameraShake(moving, delta, sample))

\* checkLandingShake
LandingShake(delta, body, valid, vert, phys, landing) ==
    /\ movementState' = IF HasShake THEN landing.ms ELSE movementState
    /\ MovementShake(delta, body, valid, vert, phys,
                     updateMovementShake(landing.shake, phys.canJump))

\* the feedback layer, after the physics left the player at phys
Feedback(delta, body, valid, vert, phys) ==
    LandingShake(delta, body, valid, vert, phys,
                 checkLandingShake(cameraShake, movementState, phys.canJump, phys.vv))

\* the vertical resolution and the fallback ground plane
ResolveVertical(delta, body, valid, vert) ==
    Feedback(delta, body, valid, vert, GroundPlane(vert))

\* the horizontal resolution
ResolveHorizontal(delta, body, valid) ==
    ResolveVertical(delta, body, valid,
                    VerticalResolution(body, collisionOBBs, valid.pos, delta))

\* the first-person branch of animate() for the updated player body
MovePlayer(delta, body) ==
    /\ playerOBB' = body
    /\ ResolveHorizontal(delta, body,
                         getValidMovementOBB(body, collisionOBBs, TweenedCamera(delta),
                                             DesiredPos(delta)))

\* animate() while the first-person controls are active
AnimateFPS(delta) ==
    /\ activeControls = "fps"
    /\ TweenUpdate(delta)
    /\ updateAreaPrompt(TweenedCamera(delta), delta)
    /\ MovePlayer(delta, updatePlayerOBB(playerOBB, TweenedCamera(delta)))
    /\ UNCHANGED <<variant, activeControls, yaw, move, isRunning, jumpPressed,
                   collisionOBBs, lastLog>>

\* where orbitControls.update() may leave the camera
OrbitPositions(position) == {position, InitialCamera, FPSSpawn}

\* animate() while the orbit controls are active
AnimateOrbit ==
    /\ activeControls = "orbit"
    /\ \E delta \in OrbitDeltas :
          /\ AgePrompt(delta)
          /\ TweenUpdate(delta)
          /\ camPos' \in IF isTweeningCamera'
                         THEN {TweenedCamera(delta)}
                         ELSE OrbitPositions(TweenedCamera(delta))
    /\ SetJump(JumpOnHold(playerOBB, camPos', canJump, verticalVelocity,
                          bunnyHopMultiplier))
    /\ frame' = [mode |-> "orbit", steps |-> AnimateSteps("orbit")]
    /\ DebugOBBs(camPos')
    /\ UNCHANGED <<variant, activeControls, yaw, move, isRunning, jumpPressed,
                   playerOBB, collisionOBBs, cameraShake, movementState, lastLog>>

----------------------------------------------------------------------------
(* Collision world                                                         *)

\* v.applyQuaternion(q) for the rotation named r
applyQuaternion(v, r) ==
    LET a == updateAxes(r)
    IN  Vec(TruncDiv(v.x * a[1].x + v.y * a[2].x + v.z * a[3].x, AxisUnit),
            TruncDiv(v.x * a[1].y + v.y * a[2].y + v.z * a[3].y, AxisUnit),
            TruncDiv(v.x * a[1].z + v.y * a[2].z + v.z * a[3].z, AxisUnit))

\* component-wise product, v.multiply(w)
MulVec(v, w) == Vec(v.x * w.x, v.y * w.y, v.z * w.z)

\* OBB.fromMesh: a mesh is its local bounding box (min, max) and its world
\* position, rotation and scale
fromMesh(mesh) ==
    LET aabbSize == SubVec(mesh.max, mesh.min)
        sum == AddVec(mesh.min, mesh.max)
        aabbCenter == Vec(TruncDiv(sum.x, 2), TruncDiv(sum.y, 2), TruncDiv(sum.z, 2))
        worldCenter == AddVec(applyQuaternion(MulVec(aabbCenter, mesh.scale), mesh.rotation),
                              mesh.position)
        scaled == MulVec(aabbSize, mesh.scale)
        worldExtents == Vec(TruncDiv(scaled.x, 2), TruncDiv(scaled.y, 2), TruncDiv(scaled.z, 2))
    IN  OBB(worldCenter, worldExtents, mesh.rotation)

\* feet height of a camera standing on the fallback ground plane
GroundFeetY == IF HasEyeHeight THEN groundHeight - cameraEyeHeight ELSE groundHeight

Box(name, position, half, rotation) ==
    [name |-> name, isMesh |-> TRUE, min |-> ScaleVec(half, -1), max |-> half,
     position |-> position, rotation |-> rotation, scale |-> Vec(1, 1, 1)]

\* the meshes of the loaded scene around the first-person spawn: a wall whose
\* face is 0.8 units ahead of the spawn, a floor slab whose top is 0.1 above the feet of a
\* player on the ground plane, a low slab whose top lies below the plane, a
\* thick slab overhead whose underside is 2.5 above the spawn, and one 7 above it
SceneMeshes ==
    {Box("Wall", Vec(FPSSpawn.x - 4800, GroundFeetY + 4000, FPSSpawn.z),
         Vec(4000, 4000, 4000), "identity"),
     Box("Floor", Vec(FPSSpawn.x, GroundFeetY - 400, FPSSpawn.z),
         Vec(600, 500, 600), "identity"),
     Box("Plinth", Vec(FPSSpawn.x, GroundFeetY - 600, FPSSpawn.z),
         Vec(600, 500, 600), "yaw345"),
     Box("Slant", Vec(FPSSpawn.x - 6200, GroundFeetY + 4000, FPSSpawn.z),
         Vec(4000, 4000, 4000), "yaw345"),
     Box("Ceiling", Vec(FPSSpawn.x, FPSSpawn.y + 5500, FPSSpawn.z),
         Vec(2000, 3000, 2000), "identity"),
     Box("Vault", Vec(FPSSpawn.x, FPSSpawn.y + 10000, FPSSpawn.z),
         Vec(2000, 3000, 2000), "identity")}

\* the registry length the console is offered to grow to
MaxRegistry == 2

\* addToOBBCollision(mesh)
addToOBBCollision(mesh) ==
    /\ mesh.isMesh
    /\ collisionOBBs' = Append(collisionOBBs, fromMesh(mesh))
    /\ PushDebugMeshes(<<fromMesh(mesh)>>)

\* window.addOBBCollision(objectName)
addOBBCollision(mesh) ==
    /\ Len(collisionOBBs) < MaxRegistry
    /\ addToOBBCollision(mesh)
    /\ UNCHANGED <<variant, activeControls, camPos, yaw, move, isRunning, jumpPressed,
                   canJump, verticalVelocity, bunnyHopMultiplier, playerOBB,
                   cameraShake, movementState, frame, lastLog,
                   tweenVars, promptVars>>

\* window.clearAllOBBCollisions(): the registry is emptied before debugMeshes
\* is read
clearAllOBBCollisions ==
    /\ collisionOBBs' = <<>>
    /\ lastLog' = [query |-> "clearAllOBBCollisions", raised |-> ~DebugMeshesDeclared]
    /\ IF DebugMeshesDeclared
       THEN /\ sceneChildren' = sceneChildren \ Range(debugMeshes)
            /\ debugMeshes' = <<>>
       ELSE UNCHANGED <<sceneChildren, debugMeshes>>
    /\ UNCHANGED <<variant, activeControls, camPos, yaw, move, isRunning, jumpPressed,
                   canJump, verticalVelocity, bunnyHopMultiplier, playerOBB,
                   cameraShake, movementState, frame,
                   debugColliders, visibleDebugMeshes, meshesMade,
                   tweenVars, promptVars>>

\* scene.getObjectByName(objectName) finding nothing
NoObject == [none |-> TRUE]

\* new THREE.Box3().setFromObject(object).getCenter(): the world box of a mesh
\* is centred where its transformed local box is
ObjectCenter(object) == fromMesh(object).center

\* whether obb.center.distanceTo(objectCenter) < 0.1
NearCenter(obb, objectCenter) ==
    LengthSq(SubVec(obb.center, objectCenter)) < 100 * 100

\* the highest matching index instead of the lowest
findLastIndex(registry, objectCenter) ==
    IF \E i \in 1..Len(registry) : NearCenter(registry[i], objectCenter)
    THEN CHOOSE i \in 1..Len(registry) :
            /\ NearCenter(registry[i], objectCenter)
            /\ \A j \in (i + 1)..Len(registry) : ~NearCenter(registry[j], objectCenter)
    ELSE 0

\* collisionOBBs.findIndex(...): indices count from 1 here and 0 stands for -1
findIndex(registry, objectCenter) ==
    IF \E i \in 1..Len(registry) : NearCenter(registry[i], objectCenter)
    THEN CHOOSE i \in 1..Len(registry) :
            /\ NearCenter(registry[i], objectCenter)
            /\ \A j \in 1..(i - 1) : ~NearCenter(registry[j], objectCenter)
    ELSE 0

\* collisionOBBs.splice(index, 1)
splice(registry, index) ==
    SubSeq(registry, 1, index - 1) \o SubSeq(registry, index + 1, Len(registry))

\* window.removeOBBCollision(objectName): the entry is spliced out before
\* debugMeshes is read
removeOBBCollision(object) ==
    LET index == IF object = NoObject
                 THEN 0
                 ELSE findIndex(collisionOBBs, ObjectCenter(object))
    IN  /\ collisionOBBs' = IF index = 0 THEN collisionOBBs ELSE splice(collisionOBBs, index)
        /\ lastLog' = [query |-> "removeOBBCollision", object |-> object,
                       index |-> index,
                       raised |-> index # 0 /\ ~DebugMeshesDeclared]
        /\ IF index # 0 /\ DebugMeshesDeclared /\ index <= Len(debugMeshes)
           THEN /\ sceneChildren' = sceneChildren \ {debugMeshes[index]}
                /\ debugMeshes' = splice(debugMeshes, index)
           ELSE UNCHANGED <<sceneChildren, debugMeshes>>
        /\ UNCHANGED <<variant, activeControls, camPos, yaw, move, isRunning,
                       jumpPressed, canJump, verticalVelocity, bunnyHopMultiplier,
                       playerOBB, cameraShake, movementState, frame,
                       debugColliders, visibleDebugMeshes, meshesMade,
                       tweenVars, promptVars>>

----------------------------------------------------------------------------
(* Input handlers and mode switches                                        *)

\* keydown of KeyW / KeyS / KeyA / KeyD or an arrow key
KeyDownMove(k) ==
    /\ move' = [move EXCEPT ![k] = TRUE]
    /\ UNCHANGED <<variant, activeControls, camPos, yaw, isRunning, jumpPressed,
                   canJump, verticalVelocity, bunnyHopMultiplier, playerOBB,
                   collisionOBBs, cameraShake, movementState, frame,
                   lastLog,
                   debugVars, tweenVars, promptVars>>

\* keyup of a movement key
KeyUpMove(k) ==
    /\ move' = [move EXCEPT ![k] = FALSE]
    /\ UNCHANGED <<variant, activeControls, camPos, yaw, isRunning, jumpPressed,
                   canJump, verticalVelocity, bunnyHopMultiplier, playerOBB,
                   collisionOBBs, cameraShake, movementState, frame,
                   lastLog,
                   debugVars, tweenVars, promptVars>>

\* keydown / keyup of Shift, and the sprint button
SetRunning(b) ==
    /\ isRunning' = b
    /\ UNCHANGED <<variant, activeControls, camPos, yaw, move, jumpPressed,
                   canJump, verticalVelocity, bunnyHopMultiplier, playerOBB,
                   collisionOBBs, cameraShake, movementState, frame,
                   lastLog,
                   debugVars, tweenVars, promptVars>>

\* keydown of Space (no check of the active controls)
KeyDownSpace ==
    /\ SetJump(IF isCrouching
               THEN [vv |-> verticalVelocity, canJump |-> canJump,
                     bhm |-> bunnyHopMultiplier]
               ELSE TryJump(playerOBB, camPos, TruncDiv(jumpStrength, 10), canJump,
                            verticalVelocity, bunnyHopMultiplier))
    /\ UNCHANGED <<variant, activeControls, camPos, yaw, move, isRunning,
                   jumpPressed, playerOBB, collisionOBBs, cameraShake,
                   movementState, frame, lastLog,
                   debugVars, tweenVars, promptVars>>

\* a fly key that gives the velocity and leaves canJump
FlyKeepsCanJump ==
    /\ verticalVelocity' = flyVelocity
    /\ UNCHANGED <<variant, activeControls, camPos, yaw, move, isRunning, jumpPressed,
                   canJump, bunnyHopMultiplier, playerOBB, collisionOBBs, cameraShake,
                   movementState, frame, lastLog,
                   debugVars, tweenVars, promptVars>>

\* keydown of AltLeft / AltRight
KeyDownAlt ==
    /\ verticalVelocity' = flyVelocity
    /\ canJump' = TRUE
    /\ UNCHANGED <<variant, activeControls, camPos, yaw, move, isRunning, jumpPressed,
                   bunnyHopMultiplier, playerOBB, collisionOBBs, cameraShake,
                   movementState, frame,
                   lastLog,
                   debugVars, tweenVars, promptVars>>

\* the jump button: handleJump in main.js, the jumpPressed flag elsewhere
JumpButton(down) ==
    /\ variant = "main" => down
    /\ jumpPressed' = IF variant = "main" THEN jumpPressed ELSE down
    /\ SetJump(IF variant = "main" /\ ~isCrouching /\ activeControls = "fps"
               THEN TryJump(playerOBB, camPos, TruncDiv(jumpStrength, 10), canJump,
                            verticalVelocity, bunnyHopMultiplier)
               ELSE [vv |-> verticalVelocity, canJump |-> canJump,
                     bhm |-> bunnyHopMultiplier])
    /\ UNCHANGED <<variant, activeControls, camPos, yaw, move, isRunning,
                   playerOBB, collisionOBBs, cameraShake, movementState, frame,
                   lastLog,
                   debugVars, tweenVars, promptVars>>

\* pointer-lock / touch look while the first-person controls are active
Look(facing) ==
    /\ activeControls = "fps"
    /\ yaw' = facing
    /\ UNCHANGED <<variant, activeControls, camPos, move, isRunning, jumpPressed,
                   canJump, verticalVelocity, bunnyHopMultiplier, playerOBB,
                   collisionOBBs, cameraShake, movementState, frame,
                   lastLog,
                   debugVars, tweenVars, promptVars>>

\* activateOrbitControls
activateOrbitControls ==
    /\ activeControls' = "orbit"
    /\ camPos' = OrbitHome
    /\ isTweeningCamera' = FALSE
    /\ orbitEnabled' = TRUE
    /\ frame' = NoFrame
    /\ UNCHANGED <<variant, yaw, move, isRunning, jumpPressed, canJump,
                   verticalVelocity, bunnyHopMultiplier, playerOBB, collisionOBBs,
                   cameraShake, movementState, lastLog,
                   debugVars, tweens, promptVars>>

\* a body built on every activation
InitializeAlways(body, fresh) == fresh

\* if (!playerOBB) initializePlayerOBB(): fresh is the body the call would build
InitializeIfMissing(body, fresh) == IF body = NoOBB THEN fresh ELSE body

\* activateFPSControls
activateFPSControls ==
    /\ activeControls' = "fps"
    /\ camPos' = FPSSpawn
    /\ yaw' = IF variant = "main" THEN yaw ELSE SpawnFacing
    /\ playerOBB' = InitializeIfMissing(playerOBB,
                        [initializePlayerOBB EXCEPT
                            !.center = IF HasEyeHeight
                                       THEN Vec(FPSSpawn.x, PlayerCenterY(FPSSpawn.y), FPSSpawn.z)
                                       ELSE FPSSpawn])
    /\ isTweeningCamera' = FALSE
    /\ orbitEnabled' = FALSE
    /\ frame' = NoFrame
    /\ UNCHANGED <<variant, move, isRunning, jumpPressed, canJump, verticalVelocity,
                   bunnyHopMultiplier, collisionOBBs, cameraShake, movementState,
                   lastLog,
                   debugVars, tweens, promptVars>>

\* the tween tweenCameraToView starts, from the camera to the view
StartTween(viewIndex) ==
    /\ isTweeningCamera' = TRUE
    /\ orbitEnabled' = FALSE
    /\ tweens' = Append(tweens, [elapsed |-> 0, from |-> camPos,
                                 to |-> predefinedViews[viewIndex + 1]])

\* tweenCameraToView(viewIndex), the click handler of a view button
tweenCameraToView(viewIndex) ==
    /\ variant = "SHD"
    /\ IF viewIndex < 0 \/ viewIndex >= Len(predefinedViews)
       THEN UNCHANGED tweenVars
       ELSE StartTween(viewIndex)
    /\ UNCHANGED <<variant, activeControls, camPos, yaw, move, isRunning, jumpPressed,
                   canJump, verticalVelocity, bunnyHopMultiplier, playerOBB,
                   collisionOBBs, cameraShake, movementState, frame, lastLog,
                   debugVars, promptVars>>

\* activateViewsMode: the orbit controls become the active ones and the camera
\* is sent to the first view
activateViewsMode ==
    /\ variant = "SHD"
    /\ activeControls' = "orbit"
    /\ StartTween(0)
    /\ frame' = NoFrame
    /\ UNCHANGED <<variant, camPos, yaw, move, isRunning, jumpPressed, canJump,
                   verticalVelocity, bunnyHopMultiplier, playerOBB, collisionOBBs,
                   cameraShake, movementState, lastLog,
                   debugVars, promptVars>>

\* keydown of KeyI: the collision report of the camera position
NoLog == [none |-> TRUE]

KeyDownI ==
    LET hasCollision == checkHorizontalCollisionOBB(playerOBB, collisionOBBs, camPos)
        headCheck == checkVerticalCollisionOBB(playerOBB, collisionOBBs,
                         Vec(camPos.x, camPos.y + playerHeight, camPos.z), "up")
    IN  /\ lastLog' = [query |-> "KeyI", position |-> camPos,
                       registry |-> collisionOBBs, hasCollision |-> hasCollision,
                       headCheck |-> headCheck]
        /\ UNCHANGED <<variant, activeControls, camPos, yaw, move, isRunning,
                       jumpPressed, canJump, verticalVelocity, bunnyHopMultiplier,
                       playerOBB, collisionOBBs, cameraShake, movementState, frame,
                       debugVars, tweenVars, promptVars>>

\* window.testOBBCollisionAt(x, y, z)
testOBBCollisionAt(testPos) ==
    /\ lastLog' = [query |-> "testOBBCollisionAt", position |-> testPos,
                   registry |-> collisionOBBs,
                   hasCollision |->
                       checkHorizontalCollisionOBB(playerOBB, collisionOBBs, testPos)]
    /\ UNCHANGED <<variant, activeControls, camPos, yaw, move, isRunning,
                   jumpPressed, canJump, verticalVelocity, bunnyHopMultiplier,
                   playerOBB, collisionOBBs, cameraShake, movementState, frame,
                   debugVars, tweenVars, promptVars>>

----------------------------------------------------------------------------
(* The program: construction, then any handler or frame                    *)

\* the page before any debug mesh, view tween or area prompt
NothingDrawn ==
    /\ debugColliders = FALSE
    /\ debugMeshes = <<>>
    /\ visibleDebugMeshes = {}
    /\ sceneChildren = {}
    /\ meshesMade = 0
    /\ tweens = <<>>
    /\ isTweeningCamera = FALSE
    /\ orbitEnabled = (activeControls = "orbit")
    /\ currentAreaName = ""
    /\ areaPrompt = [display |-> "none", opacity |-> "", textContent |-> AreaName]
    /\ pending = [show |-> 0, hide |-> <<>>]

\* the scenes a specification starts from, as the load leaves the registry
Scene(names) ==
    [i \in 1..Len(names) |-> fromMesh(CHOOSE m \in SceneMeshes : m.name = names[i])]

LoadedScenes == {<<>>, Scene(<<"Plinth">>), Scene(<<"Plinth", "Floor">>)}

\* the state construction and the load of a scene leave
Constructed(scenes) ==
    /\ variant \in Variants
    /\ activeControls = "orbit"
    /\ camPos = InitialCamera
    /\ yaw = SpawnFacing
    /\ move = NoMove
    /\ isRunning = FALSE
    /\ jumpPressed = FALSE
    /\ canJump = InitialCanJump
    /\ verticalVelocity = 0
    /\ bunnyHopMultiplier = 1000
    /\ playerOBB = NoOBB
    /\ collisionOBBs \in scenes
    /\ cameraShake = NoShake
    /\ movementState = InitialMovementState
    /\ frame = NoFrame
    /\ lastLog = NoLog
    /\ NothingDrawn

\* the state activateFPSControls leaves when it follows construction
Entered(scenes) ==
    /\ variant \in Variants
    /\ activeControls = "fps"
    /\ camPos = FPSSpawn
    /\ yaw = SpawnFacing
    /\ move = NoMove
    /\ isRunning = FALSE
    /\ jumpPressed = FALSE
    /\ canJump = InitialCanJump
    /\ verticalVelocity = 0
    /\ bunnyHopMultiplier = 1000
    /\ playerOBB = OBB(IF HasEyeHeight
                       THEN Vec(FPSSpawn.x, PlayerCenterY(FPSSpawn.y), FPSSpawn.z)
                       ELSE FPSSpawn,
                       Vec(playerRadius, playerHeight \div 2, playerRadius), "identity")
    /\ collisionOBBs \in scenes
    /\ cameraShake = NoShake
    /\ movementState = InitialMovementState
    /\ frame = NoFrame
    /\ lastLog = NoLog
    /\ NothingDrawn

Init == Constructed(LoadedScenes)

Next ==
    \/ \E b \in BOOLEAN : SetRunning(b) \/ JumpButton(b)
    \/ KeyDownSpace
    \/ activateOrbitControls
    \/ activateFPSControls
    \/ \E delta \in Deltas : AnimateFPS(delta)
    \/ AnimateOrbit

Spec == Init /\ [][Next]_vars

----------------------------------------------------------------------------
(* Hopping: a player who runs into the wall and jumps                      *)

InitHop == Entered({Scene(<<"Wall">>)})

NextHop ==
    \/ KeyDownMove("forward") \/ KeyUpMove("forward")
    \/ \E b \in BOOLEAN : SetRunning(b) \/ JumpButton(b)
    \/ KeyDownSpace
    \/ \E delta \in Deltas : AnimateFPS(delta)

SpecHop == InitHop /\ [][NextHop]_vars

----------------------------------------------------------------------------
(* Jumping and flying under a ceiling                                      *)

InitJump == Entered({Scene(<<"Ceiling">>), Scene(<<"Vault">>)})

\* the fly key pressed by a player at rest
FlyFromRest ==
    /\ verticalVelocity = 0
    /\ KeyDownAlt

NextJump ==
    \/ KeyDownSpace
    \/ \E b \in BOOLEAN : JumpButton(b)
    \/ FlyFromRest
    \/ \E delta \in Deltas : AnimateFPS(delta)

SpecJump == InitJump /\ [][NextJump]_vars

----------------------------------------------------------------------------
(* Walking: a player who walks and runs about a wall from a free position  *)

InitWalk == Entered({Scene(<<"Wall">>), Scene(<<"Slant">>)})

\* a frame of a player who keeps to the arena
Walk(delta) ==
    /\ InArena(DesiredPos(delta))
    /\ AnimateFPS(delta)

\* the keys and facings of the walk: toward the wall and along it
WalkKeys == {"forward"}

WalkFacings == {Vec(-AxisUnit, 0, 0), Vec(-3, 0, -4)}

NextWalk ==
    \/ \E k \in WalkKeys : KeyDownMove(k) \/ KeyUpMove(k)
    \/ \E facing \in WalkFacings : Look(facing)
    \/ \E b \in BOOLEAN : SetRunning(b)
    \/ \E delta \in Deltas : Walk(delta)

SpecWalk == InitWalk /\ [][NextWalk]_vars

----------------------------------------------------------------------------
(* A ledge: a player who lands on a raised slab and walks off its edge      *)

\* a slab about the feet of a player at the spawn, its top 1.1 above the feet
\* of a player on the ground plane
Ledge ==
    Box("Ledge", Vec(FPSSpawn.x, GroundFeetY + 500, FPSSpawn.z), Vec(600, 600, 600),
        "identity")

NextLedge ==
    \/ KeyDownMove("forward") \/ KeyUpMove("forward")
    \/ \E b \in BOOLEAN : SetRunning(b)
    \/ \E delta \in Deltas : Walk(delta)

SpecLedge == Entered({<<fromMesh(Ledge)>>}) /\ [][NextLedge]_vars

----------------------------------------------------------------------------
(* Falling: a player left above a wide floor, no input                     *)

\* frame times of the fall, in milliseconds
FallDeltas == {50, 100, 300}

WideFloor == Box("WideFloor", ZeroVec, Vec(50000, 500, 50000), "identity")

InitFall ==
    /\ variant \in {"SHD", "part"}
    /\ activeControls = "fps"
    /\ camPos = Vec(0, 10000, 0)
    /\ yaw = SpawnFacing
    /\ move = NoMove
    /\ isRunning = FALSE
    /\ jumpPressed = FALSE
    /\ canJump \in BOOLEAN
    /\ verticalVelocity = 0
    /\ bunnyHopMultiplier = 1000
    /\ playerOBB = OBB(Vec(0, PlayerCenterY(10000), 0),
                       Vec(playerRadius, playerHeight \div 2, playerRadius), "identity")
    /\ collisionOBBs = <<fromMesh(WideFloor)>>
    /\ cameraShake = NoShake
    /\ movementState = InitialMovementState
    /\ frame = NoFrame
    /\ lastLog = NoLog
    /\ NothingDrawn

NextFall == \E delta \in FallDeltas : AnimateFPS(delta)

SpecFall == InitFall /\ [][NextFall]_vars

----------------------------------------------------------------------------
(* Querying: the console and the keys before and after the first entry     *)

\* positions the console asks about: the spawn point and the middle of the wall
QueryPositions ==
    {FPSSpawn, Vec(FPSSpawn.x - 4800, GroundFeetY + 4000, FPSSpawn.z)}

\* the objects the console adds by name
ConsoleMeshes == {m \in SceneMeshes : m.name \in {"Wall", "Floor"}}

NextQuery ==
    \/ KeyDownI
    \/ \E testPos \in QueryPositions : testOBBCollisionAt(testPos)
    \/ \E mesh \in ConsoleMeshes : addOBBCollision(mesh)
    \/ clearAllOBBCollisions
    \/ KeyDownSpace
    \/ KeyDownAlt
    \/ activateOrbitControls
    \/ activateFPSControls
    \/ AnimateOrbit

SpecQuery == Constructed({<<>>}) /\ [][NextQuery]_vars

\* the console at work on the registry: a floor slab, a step whose center is
\* 0.05 above the slab's, and the wall
Step ==
    Box("Step", Vec(FPSSpawn.x, GroundFeetY - 350, FPSSpawn.z), Vec(300, 100, 300),
        "identity")

RegistryMeshes == ConsoleMeshes \cup {Step}

\* the names handed to removeOBBCollision: objects of the scene and a name
\* the scene does not hold
RemovedObjects ==
    RegistryMeshes \cup {m \in SceneMeshes : m.name = "Plinth"} \cup {NoObject}

NextRegistry ==
    \/ \E mesh \in RegistryMeshes : addOBBCollision(mesh)
    \/ \E object \in RemovedObjects : removeOBBCollision(object)
    \/ clearAllOBBCollisions
    \/ activateFPSControls
    \/ \E delta \in Deltas : AnimateFPS(delta)

SpecRegistry == Constructed({<<>>}) /\ [][NextRegistry]_vars

----------------------------------------------------------------------------
(* Debugging: the console and the KeyB toggle at work on the debug meshes  *)

\* how many debug meshes the scenario lets the program build
MaxMeshes == 4

\* an object added while no OBB equal to its own is registered or still keyed
\* in the map of SHD.js (where the map tells equal OBBs apart by identity)
AddFresh(mesh) ==
    /\ variant = "SHD" =>
          /\ \A i \in 1..Len(collisionOBBs) : collisionOBBs[i] # fromMesh(mesh)
          /\ \A entry \in visibleDebugMeshes : entry.obb # fromMesh(mesh)
    /\ addOBBCollision(mesh)

\* a first-person frame of SHD.js, whose animate() draws the debug meshes
DrawnFrame(delta) ==
    /\ variant = "SHD"
    /\ AnimateFPS(delta)

NextDebug ==
    /\ \/ \E mesh \in ConsoleMeshes : AddFresh(mesh)
       \/ \E object \in ConsoleMeshes \cup {NoObject} : removeOBBCollision(object)
       \/ clearAllOBBCollisions
       \/ KeyDownB
       \/ activateFPSControls
       \/ \E delta \in Deltas : DrawnFrame(delta)
       \/ AnimateOrbit
    /\ meshesMade' <= MaxMeshes

SpecDebug == Constructed({<<>>}) /\ [][NextDebug]_vars

----------------------------------------------------------------------------
(* Views: view tweens among the mode switches and the frames               *)

\* how many tweens the scenario lets be in flight at once
MaxTweens == 1

\* frame times of the first-person frames among the tweens, in milliseconds
ViewDeltas == {500}

\* the indices the view buttons hand over, and one no view has
ViewIndices == {-1, 0, 1}

NextViews ==
    \/ /\ Len(tweens) < MaxTweens
       /\ \/ activateViewsMode
          \/ \E viewIndex \in ViewIndices :
                /\ activeControls = "orbit"
                /\ tweenCameraToView(viewIndex)
    \/ activateOrbitControls
    \/ activateFPSControls
    \/ \E delta \in ViewDeltas : AnimateFPS(delta)
    \/ AnimateOrbit

SpecViews == Constructed({<<>>}) /\ [][NextViews]_vars

----------------------------------------------------------------------------
(* The area: a player who walks in and out over the edge of the area       *)

\* how many callbacks of a kind the scenario lets wait at once
MaxPending == 2

\* where the player stands at first: on the ground plane, half a unit outside
\* the edge x = 112 of the area, facing it
AreaEdge == Vec(112500, 1850, 7000)

InitArea ==
    /\ variant \in {"SHD", "part"}
    /\ activeControls = "fps"
    /\ camPos = AreaEdge
    /\ yaw = SpawnFacing
    /\ move = NoMove
    /\ isRunning = FALSE
    /\ jumpPressed = FALSE
    /\ canJump = TRUE
    /\ verticalVelocity = 0
    /\ bunnyHopMultiplier = 1000
    /\ playerOBB = OBB(Vec(AreaEdge.x, PlayerCenterY(AreaEdge.y), AreaEdge.z),
                       Vec(playerRadius, playerHeight \div 2, playerRadius), "identity")
    /\ collisionOBBs = <<>>
    /\ cameraShake = [NoShake EXCEPT !.frequency = walkShakeFrequency]
    /\ movementState = [wasOnGround |-> TRUE, landingVelocity |-> 0]
    /\ frame = NoFrame
    /\ lastLog = NoLog
    /\ NothingDrawn

NextArea ==
    /\ \/ \E k \in {"forward", "backward"} : KeyDownMove(k) \/ KeyUpMove(k)
       \/ \E delta \in Deltas :
             /\ Abs(DesiredPos(delta).x - AreaEdge.x) <= 1000
             /\ AnimateFPS(delta)
       \/ ShowCallback
       \/ HideCallback
    /\ pending'.show <= MaxPending
    /\ Len(pending'.hide) <= MaxPending

SpecArea == InitArea /\ [][NextArea]_vars

----------------------------------------------------------------------------
(* The load of the scene: the traversal that fills the collision registry *)

\* names are sequences of characters
UpperCase ==
    <<"A", "B", "C", "D", "E", "F", "G", "H", "I", "J", "K", "L", "M",
      "N", "O", "P", "Q", "R", "S", "T", "U", "V", "W", "X", "Y", "Z">>

LowerCase ==
    <<"a", "b", "c", "d", "e", "f", "g", "h", "i", "j", "k", "l", "m",
      "n", "o", "p", "q", "r", "s", "t", "u", "v", "w", "x", "y", "z">>

\* String.prototype.toLowerCase
toLowerCase(s) ==
    [i \in 1..Len(s) |->
        IF \E k \in 1..Len(UpperCase) : UpperCase[k] = s[i]
        THEN LowerCase[CHOOSE k \in 1..Len(UpperCase) : UpperCase[k] = s[i]]
        ELSE s[i]]

\* String.prototype.includes
includes(s, t) ==
    \E i \in 0..(Len(s) - Len(t)) : SubSeq(s, i + 1, i + Len(t)) = t

Marker == <<"C", "O", "L", "L", "I", "D", "E", "R">>

Keywords ==
    {<<"r", "o", "o", "f">>, <<"c", "e", "i", "l", "i", "n", "g">>, <<"t", "o", "p">>,
     <<"w", "a", "l", "l">>, <<"f", "l", "o", "o", "r">>,
     <<"b", "u", "i", "l", "d", "i", "n", "g">>,
     <<"s", "t", "r", "u", "c", "t", "u", "r", "e">>,
     <<"c", "o", "l", "l", "i", "d", "e">>}

NoMaterial == [none |-> TRUE]

Material(transparent, opacity, format) ==
    [transparent |-> transparent, opacity |-> opacity, map |-> format]

\* the test the fallback tier computes
isTransparent(material) ==
    \/ material.transparent
    \/ material.opacity < 1000
    \/ material.map = "RGBAFormat"

\* the condition the fallback tier branches on: if (true)
AutoDetectGate(material) == TRUE

\* the keyword tier tried before the marker tier
ClassifyKeywordFirst(child) ==
    CASE child.name # <<>> /\ (\E k \in Keywords : includes(toLowerCase(child.name), k)) ->
            "keyword"
      [] child.name # <<>> /\ includes(child.name, Marker) -> "marker"
      [] child.geometry /\ child.material # NoMaterial /\ AutoDetectGate(child.material) ->
            "auto"
      [] OTHER -> "none"

\* the if / else if chain of the traversal callback
Classify(child) ==
    CASE child.name # <<>> /\ includes(child.name, Marker) -> "marker"
      [] child.name # <<>> /\ (\E k \in Keywords : includes(toLowerCase(child.name), k)) ->
            "keyword"
      [] child.geometry /\ child.material # NoMaterial /\ AutoDetectGate(child.material) ->
            "auto"
      [] OTHER -> "none"

\* a node of the scene graph: a mesh is what OBB.fromMesh reads of it, and name,
\* geometry (present or not), material and visibility
Node(name, isMesh, geometry, material, position) ==
    [name |-> name, isMesh |-> isMesh, geometry |-> geometry, material |-> material,
     visible |-> TRUE, min |-> Vec(-500, -500, -500), max |-> Vec(500, 500, 500),
     position |-> position, rotation |-> "identity", scale |-> Vec(1, 1, 1)]

Opaque == Material(FALSE, 1000, "RGBFormat")

SceneNodes ==
    {Node(Marker, TRUE, TRUE, Opaque, Vec(1000, 0, 0)),
     Node(<<"c", "o", "l", "l", "i", "d", "e", "r">>, TRUE, TRUE, NoMaterial, Vec(2000, 0, 0)),
     Node(<<"R", "O", "O", "F">>, TRUE, TRUE, Material(TRUE, 1000, "RGBFormat"),
          Vec(3000, 0, 0)),
     Node(<<"L", "a", "m", "p">>, TRUE, TRUE, Opaque, Vec(4000, 0, 0)),
     Node(<<"P", "a", "n", "e">>, TRUE, TRUE, Material(TRUE, 1000, "RGBFormat"),
          Vec(5000, 0, 0)),
     Node(<<>>, TRUE, TRUE, Material(FALSE, 500, "RGBAFormat"), Vec(6000, 0, 0)),
     Node(<<"R", "i", "g">>, TRUE, TRUE, NoMaterial, Vec(7000, 0, 0)),
     Node(<<"G", "a", "p">>, TRUE, FALSE, Opaque, Vec(8000, 0, 0)),
     Node(<<"f", "l", "o", "o", "r">>, FALSE, FALSE, NoMaterial, Vec(9000, 0, 0))}

\* the number of nodes of the scenes loaded
MaxScene == 3

Scenes == UNION {[1..n -> SceneNodes] : n \in 0..MaxScene}

\* gltf.scene.traverse(callback) from node i on: the nodes as the callback
\* leaves them, the indices of the nodes handed to addToOBBCollision, the
\* registry, and whether the callback threw. The callback reads
\* child.geometry.attributes of every mesh before it classifies it.
RECURSIVE Traverse(_, _, _, _)
Traverse(nodes, i, added, registry) ==
    IF i > Len(nodes)
    THEN [nodes |-> nodes, added |-> added, registry |-> registry, thrown |-> FALSE]
    ELSE IF ~nodes[i].isMesh
    THEN Traverse(nodes, i + 1, added, registry)
    ELSE IF ~nodes[i].geometry
    THEN [nodes |-> nodes, added |-> added, registry |-> registry, thrown |-> TRUE]
    ELSE LET tier == Classify(nodes[i])
             seen == IF tier = "marker"
                     THEN [nodes EXCEPT ![i].visible = FALSE]
                     ELSE nodes
         IN  IF tier = "none"
             THEN Traverse(seen, i + 1, added, registry)
             ELSE Traverse(seen, i + 1, Append(added, i),
                           Append(registry, fromMesh(nodes[i])))

\* the requestAnimationFrame callback of the load: the scene as loaded is kept
\* next to what the traversal made of it
SetupCollision(nodes) ==
    LET built == Traverse(nodes, 1, <<>>, collisionOBBs)
    IN  /\ lastLog = NoLog
        /\ collisionOBBs' = built.registry
        /\ lastLog' = [query |-> "load", scene |-> nodes, nodes |-> built.nodes,
                       added |-> built.added, thrown |-> built.thrown]
        /\ PushDebugMeshes(SubSeq(built.registry, Len(collisionOBBs) + 1,
                                  Len(built.registry)))
        /\ UNCHANGED <<variant, activeControls, camPos, yaw, move, isRunning,
                       jumpPressed, canJump, verticalVelocity, bunnyHopMultiplier,
                       playerOBB, cameraShake, movementState, frame,
                       tweenVars, promptVars>>

NextLoad == \E nodes \in Scenes : SetupCollision(nodes)

SpecLoad == Constructed({<<>>}) /\ [][NextLoad]_vars

----------------------------------------------------------------------------
(* The OBB primitive on its own: pairs of boxes and points put to the tests *)

BoxCenters ==
    {ZeroVec, Vec(1500, 0, 0), Vec(1800, 0, 1800), Vec(0, 1400, 1300),
     Vec(2500, 800, -600)}

BoxExtents == {Vec(1000, 1000, 1000), Vec(2000, 500, 300), ZeroVec}

BoxRotations == {"identity", "yaw345", "pitch345"}

Boxes ==
    {OBB(c, e, r) : c \in BoxCenters, e \in BoxExtents, r \in BoxRotations}

\* points inside, on and outside the faces of the unit box at the origin
BoxPoints ==
    {Vec(990, 0, 0), Vec(1010, 0, 0), Vec(1000, 0, 0), Vec(0, -1000, 1000),
     Vec(0, 0, -1010), Vec(1500, 400, 200), Vec(600, 800, -800)}

\* A.intersectsOBB(B) and B.intersectsOBB(A) for the two boxes held
TestPair ==
    /\ lastLog' = [query |-> "intersectsOBB",
                   ab |-> intersectsOBB(collisionOBBs[1], collisionOBBs[2]),
                   ba |-> intersectsOBB(collisionOBBs[2], collisionOBBs[1])]
    /\ UNCHANGED <<variant, activeControls, camPos, yaw, move, isRunning,
                   jumpPressed, canJump, verticalVelocity, bunnyHopMultiplier,
                   playerOBB, collisionOBBs, cameraShake, movementState, frame,
                   debugVars, tweenVars, promptVars>>

\* A.containsPoint(point) for the first box held
TestPoint(point) ==
    /\ lastLog' = [query |-> "containsPoint", point |-> point,
                   contained |-> containsPoint(collisionOBBs[1], point)]
    /\ UNCHANGED <<variant, activeControls, camPos, yaw, move, isRunning,
                   jumpPressed, canJump, verticalVelocity, bunnyHopMultiplier,
                   playerOBB, collisionOBBs, cameraShake, movementState, frame,
                   debugVars, tweenVars, promptVars>>

InitOBB == Constructed({<<a, b>> : a \in Boxes, b \in Boxes})

NextOBB ==
    \/ TestPair
    \/ \E point \in BoxPoints : TestPoint(point)

SpecOBB == InitOBB /\ [][NextOBB]_vars

----------------------------------------------------------------------------
(* Properties                                                              *)

\* C2: in every reachable state the bunny-hop multiplier lies between 1 and
\* maxBunnyHop, however many jumps, landings, run toggles and ticks came before.
C2_BunnyHopBounds ==
    /\ 1000 <= bunnyHopMultiplier
    /\ bunnyHopMultiplier <= maxBunnyHop

\* a running jump taken with the multiplier already at its cap
C2_JumpAtCap ==
    /\ bunnyHopMultiplier = maxBunnyHop
    /\ isRunning
    /\ verticalVelocity = jumpStrength
    /\ ~canJump

\* position of a step in the order animate() ran its steps
StepIndex(steps, name) == CHOOSE i \in 1..Len(steps) : steps[i] = name

StepPrecedes(steps, first, second) ==
    StepIndex(steps, first) < StepIndex(steps, second)

\* C1: in a first-person tick that adds a non-zero shake offset to the camera
\* before the render call, the offset is subtracted after the render call
\* (apply shake, render, remove shake), and the camera position the next tick
\* starts from is the position the tick's physics resolution produced.
C1_ShakeNonLeakage ==
    frame.mode = "fps" =>
        /\ camPos = frame.phys.pos
        /\ frame.shaken =>
              /\ StepPrecedes(frame.steps, "applyShake", "render")
              /\ StepPrecedes(frame.steps, "render", "removeShake")

\* a frame rendered with the camera displaced by the shake offset
C1_ShakenFrame ==
    /\ frame.mode = "fps"
    /\ frame.shaken
    /\ "removeShake" \in {frame.steps[i] : i \in 1..Len(frame.steps)}

\* the foot probe of a falling player met at least one floor
FootProbeHit ==
    /\ frame.mode = "fps"
    /\ HasEyeHeight
    /\ frame.probe.direction = "down"
    /\ frame.probe.surfaces # {}

\* the highest top surface among the floors the foot probe met
HighestFloor ==
    CHOOSE F \in frame.probe.surfaces : \A other \in frame.probe.surfaces : F >= other

\* C3 as stated: when the foot probe of a falling player hits floors whose
\* highest top surface is F, the tick ends with camera y = F + eyeHeight +
\* standoff, verticalVelocity 0 and canJump true.
C3_ClampAtEndOfTick ==
    FootProbeHit =>
        /\ frame.end.pos.y = HighestFloor + cameraEyeHeight + playerFeetOffset
        /\ frame.end.vv = 0
        /\ frame.end.canJump

\* C3 amended: when the foot probe of a falling player hits floors whose highest
\* top surface is F, the physics resolution of the tick (before the hold-to-jump
\* block) leaves camera y at F + eyeHeight + standoff, or at the fallback ground
\* plane when that is higher, with verticalVelocity 0 and canJump true.
C3_ClampOrPlane ==
    FootProbeHit =>
        /\ frame.phys.pos.y =
              IF HighestFloor + cameraEyeHeight + playerFeetOffset > currentGround
              THEN HighestFloor + cameraEyeHeight + playerFeetOffset
              ELSE currentGround
        /\ frame.phys.vv = 0
        /\ frame.phys.canJump

\* the foot probe met two floors of different height and the player stands on
\* the higher one, above the fallback plane
C3_TwoFloorsHit ==
    /\ FootProbeHit
    /\ Cardinality(frame.probe.surfaces) = 2
    /\ frame.phys.pos.y = HighestFloor + cameraEyeHeight + playerFeetOffset
    /\ frame.phys.pos.y > currentGround

\* C6: the physics part of every first-person tick ends with camera y at or
\* above the fallback ground plane, whatever the registry holds; when the
\* vertical resolution leaves y at or below the plane, y is set to the plane,
\* verticalVelocity to 0 and canJump to true.
C6_GroundPlane ==
    frame.mode = "fps" =>
        /\ frame.phys.pos.y >= currentGround
        /\ frame.vertical.y <= currentGround =>
              /\ frame.phys.pos.y = currentGround
              /\ frame.phys.vv = 0
              /\ frame.phys.canJump

\* a fall through an empty registry that the plane stopped
C6_CaughtByPlane ==
    /\ frame.mode = "fps"
    /\ collisionOBBs = <<>>
    /\ frame.vertical.y < currentGround
    /\ frame.probe.surfaces = {}

FeedbackSteps == {"updateAreaPrompt", "cameraShake", "applyShake", "debugOBBs"}

\* C9: in every first-person tick the horizontal resolution precedes the
\* vertical one, every feedback step (shake, debug visualization, area prompt)
\* runs after both, and the area prompt reads the position they produced.
C9_FeedbackAfterPhysics ==
    frame.mode = "fps" =>
        /\ StepPrecedes(frame.steps, "horizontal", "vertical")
        /\ \A i \in 1..Len(frame.steps) :
              frame.steps[i] \in FeedbackSteps =>
                  StepIndex(frame.steps, "groundPlane") < i
        /\ ~frame.promptStale

\* C10: every activateFPSControls leaves verticalVelocity, canJump,
\* bunnyHopMultiplier and the movement and run flags at their initial values.
C10_ResetOnEnter ==
    [][activateFPSControls =>
          /\ verticalVelocity' = 0
          /\ canJump' = InitialCanJump
          /\ bunnyHopMultiplier' = 1000
          /\ move' = NoMove
          /\ ~isRunning']_vars

\* the camera stands on the wide floor: y = 0.5 + eyeHeight + standoff
RestsOnWideFloor ==
    /\ frame.mode = "fps"
    /\ camPos.y = 500 + cameraEyeHeight + playerFeetOffset
    /\ verticalVelocity = 0
    /\ canJump

\* C4: once the falling player has come to rest on the floor at y = 0.5 +
\* eyeHeight + standoff, every later tick without input ends with that same y
\* and canJump true.
C4_RestIsKept == [][RestsOnWideFloor => RestsOnWideFloor']_vars

\* C5: a player who starts free of a single static OBB and steps horizontally
\* by less than the OBB's smallest extent is never returned a position by
\* getValidMovementOBB at which the player's test OBB intersects the OBB.
C5_NoTunneling ==
    frame.mode = "fps" =>
        ~checkHorizontalCollisionOBB(playerOBB, collisionOBBs, frame.valid)

\* the desired position collided and the player was moved along the obstacle
C5_SlidAlongWall ==
    /\ frame.mode = "fps"
    /\ frame.resolution = "slide"
    /\ frame.moved
    /\ Len(collisionOBBs) = 1

\* a body of the player's size at the logged position meets the logged registry
BodyWouldCollide ==
    \E i \in 1..Len(lastLog.registry) :
        intersectsOBB(OBB(Vec(lastLog.position.x, PlayerCenterY(lastLog.position.y),
                              lastLog.position.z),
                          Vec(playerRadius, playerHeight \div 2, playerRadius),
                          "identity"),
                      lastLog.registry[i])

\* C7: while the player OBB has never been initialized, a horizontal query
\* returns false and a vertical query returns collision = false with the
\* queried y as height, whatever the registry holds and wherever it is asked.
C7_NoBodyNoCollision ==
    (playerOBB = NoOBB /\ lastLog # NoLog
        /\ lastLog.query \in {"KeyI", "testOBBCollisionAt"}) =>
        /\ ~lastLog.hasCollision
        /\ lastLog.query = "KeyI" =>
              lastLog.headCheck =
                  [collision |-> FALSE, height |-> lastLog.position.y + playerHeight]

\* a query before the first entry, at a place where the body would collide
C7_QueryInsideBox ==
    /\ playerOBB = NoOBB
    /\ lastLog # NoLog
    /\ lastLog.query = "KeyI"
    /\ BodyWouldCollide

\* C8: when the desired position and every fallback candidate collide,
\* getValidMovementOBB returns the current position: the horizontal resolution
\* of that tick leaves the camera's x and z as they were.
C8_FrozenKeepsPosition ==
    (frame.mode = "fps" /\ frame.resolution = "frozen") =>
        /\ ~frame.moved
        /\ frame.phys.pos.x = frame.valid.x
        /\ frame.phys.pos.z = frame.valid.z

\* a tick of a player who pressed a movement key and could not be moved
C8_NowhereToGo ==
    /\ frame.mode = "fps"
    /\ frame.resolution = "frozen"
    /\ frame.wanted

\* C11: once the player OBB exists, no activation, mode switch or tick
\* constructs it again: an activateFPSControls leaves it as it was, and every
\* step leaves its extents (radius, height / 2, radius) and identity rotation.
C11_BodyBuiltOnce ==
    [][playerOBB # NoOBB =>
          /\ playerOBB' # NoOBB
          /\ playerOBB'.extents = Vec(playerRadius, playerHeight \div 2, playerRadius)
          /\ playerOBB'.rotation = "identity"
          /\ activateFPSControls => playerOBB' = playerOBB]_vars

\* first-person mode entered again with the body a tick had moved off the spawn
C11_ReenteredWithBody ==
    /\ activeControls = "fps"
    /\ frame = NoFrame
    /\ camPos = FPSSpawn
    /\ playerOBB # NoOBB
    /\ playerOBB.center.y # (IF HasEyeHeight THEN PlayerCenterY(FPSSpawn.y) ELSE FPSSpawn.y)

\* C12: for every pair of boxes A and B, whatever their centers, extents and
\* rotations, A.intersectsOBB(B) and B.intersectsOBB(A) give the same answer.
C12_SATSymmetry ==
    (lastLog # NoLog /\ lastLog.query = "intersectsOBB") => lastLog.ab = lastLog.ba

\* two differently rotated boxes apart from each other that intersect
C12_RotatedPairMeets ==
    /\ lastLog # NoLog
    /\ lastLog.query = "intersectsOBB"
    /\ lastLog.ab
    /\ collisionOBBs[1].rotation = "yaw345"
    /\ collisionOBBs[2].rotation = "pitch345"
    /\ collisionOBBs[1].center # collisionOBBs[2].center

\* C13: for an unrotated box with center c and extents e, containsPoint(p) is
\* true exactly when |p_i - c_i| <= e_i on each of the three axes, the
\* boundary included.
C13_AxisAlignedContainment ==
    (/\ lastLog # NoLog
     /\ lastLog.query = "containsPoint"
     /\ collisionOBBs[1].rotation = "identity") =>
        LET c == collisionOBBs[1].center
            e == collisionOBBs[1].extents
            p == lastLog.point
        IN  lastLog.contained <=>
                /\ Abs(p.x - c.x) <= e.x
                /\ Abs(p.y - c.y) <= e.y
                /\ Abs(p.z - c.z) <= e.z

\* the point (1, 0, 0) on the face of the unit box at the origin is contained
C13_PointOnFace ==
    /\ lastLog # NoLog
    /\ lastLog.query = "containsPoint"
    /\ collisionOBBs[1] = OBB(ZeroVec, Vec(1000, 1000, 1000), "identity")
    /\ lastLog.point = Vec(1000, 0, 0)
    /\ lastLog.contained

\* the load has run
Loaded == lastLog # NoLog /\ lastLog.query = "load"

\* the nodes the traversal reached: all of them unless the callback threw
Traversed ==
    {i \in 1..Len(lastLog.scene) :
        \A j \in 1..i : lastLog.scene[j].isMesh => lastLog.scene[j].geometry}

HasMarker(node) == includes(node.name, Marker)

HasKeyword(node) == \E k \in Keywords : includes(toLowerCase(node.name), k)

C15_TransparentNotAdded ==
    Loaded =>
        \A k \in 1..Len(lastLog.added) :
            LET node == lastLog.scene[lastLog.added[k]]
            IN  (~HasMarker(node) /\ ~HasKeyword(node)) => ~isTransparent(node.material)

\* C16: a mesh without geometry is skipped and the build goes on: no exception
\* ends the traversal, and every other qualifying mesh is registered.
C16_MissingGeometrySkipped ==
    Loaded =>
        /\ ~lastLog.thrown
        /\ \A i \in 1..Len(lastLog.scene) :
              LET node == lastLog.scene[i]
              IN  (/\ node.isMesh
                   /\ node.geometry
                   /\ HasMarker(node) \/ HasKeyword(node) \/ node.material # NoMaterial)
                  => \E k \in 1..Len(lastLog.added) : lastLog.added[k] = i

\* C17: in every variant clearAllOBBCollisions returns without raising and
\* leaves the registry empty, and a query logged against the empty registry
\* reports no collision.
C17_ClearReturnsNormally ==
    [][/\ clearAllOBBCollisions => (~lastLog'.raised /\ collisionOBBs' = <<>>)
       /\ (/\ lastLog' # NoLog
           /\ lastLog'.query \in {"KeyI", "testOBBCollisionAt"}
           /\ lastLog'.registry = <<>>) => ~lastLog'.hasCollision]_vars

\* C18: removeOBBCollision removes exactly the first entry whose center is
\* less than 0.1 away from the named object's center and keeps the others in order; with
\* no such entry, or no such object, the registry is unchanged. Every step that
\* is neither a removal nor a clear leaves the registry or appends one entry.
C18_RemovesFirstMatch ==
    [][/\ \A object \in RemovedObjects :
            removeOBBCollision(object) =>
                LET matches ==
                        {i \in 1..Len(collisionOBBs) :
                            /\ object # NoObject
                            /\ LengthSq(SubVec(collisionOBBs[i].center,
                                               ObjectCenter(object))) < 10000}
                IN  IF matches = {}
                    THEN collisionOBBs' = collisionOBBs
                    ELSE LET first == CHOOSE i \in matches : \A j \in matches : i <= j
                         IN  /\ Len(collisionOBBs') = Len(collisionOBBs) - 1
                             /\ \A i \in 1..(first - 1) : collisionOBBs'[i] = collisionOBBs[i]
                             /\ \A i \in first..Len(collisionOBBs') :
                                   collisionOBBs'[i] = collisionOBBs[i + 1]
       /\ (/\ ~clearAllOBBCollisions
           /\ ~\E object \in RemovedObjects : removeOBBCollision(object)) =>
              \/ collisionOBBs' = collisionOBBs
              \/ /\ Len(collisionOBBs') = Len(collisionOBBs) + 1
                 /\ SubSeq(collisionOBBs', 1, Len(collisionOBBs)) = collisionOBBs]_vars

\* the step named for removal while the slab, registered before it, lies
\* within 0.1 of it: the slab went and the step stayed
C18_SlabRemovedForStep ==
    /\ lastLog # NoLog
    /\ lastLog.query = "removeOBBCollision"
    /\ lastLog.object = Step
    /\ lastLog.index = 1
    /\ collisionOBBs = <<fromMesh(Step)>>

\* the candidates in the order stated: the full displacement, X only, Z only,
\* then for 0.8, 0.6, 0.4 and 0.2 the scaled full displacement, X only, Z only
OrderedCandidates(currentPos, desiredPos) ==
    LET deltaX == desiredPos.x - currentPos.x
        deltaZ == desiredPos.z - currentPos.z
        at(dx, dz) == Vec(currentPos.x + dx, currentPos.y, currentPos.z + dz)
        scaled(f) == <<at(TruncDiv(deltaX * f, 10), TruncDiv(deltaZ * f, 10)),
                       at(TruncDiv(deltaX * f, 10), 0),
                       at(0, TruncDiv(deltaZ * f, 10))>>
    IN  <<desiredPos, at(deltaX, 0), at(0, deltaZ)>>
            \o scaled(8) \o scaled(6) \o scaled(4) \o scaled(2)

\* C19: the horizontal resolution of a tick returns the first collision-free
\* candidate of that order, or the current position when there is none; what
\* it returns is collision-free or the current position, at the current y.
C19_SlidingOrder ==
    [][\A delta \in Deltas :
          AnimateFPS(delta) =>
              LET body == updatePlayerOBB(playerOBB, camPos)
                  candidates == OrderedCandidates(camPos, DesiredPos(delta))
                  free == {k \in 1..Len(candidates) :
                              ~checkHorizontalCollisionOBB(body, collisionOBBs,
                                                           candidates[k])}
              IN  /\ frame'.valid =
                        IF free = {} THEN camPos
                        ELSE candidates[CHOOSE k \in free : \A j \in free : k <= j]
                  /\ frame'.valid.y = camPos.y
                  /\ \/ frame'.valid = camPos
                     \/ ~checkHorizontalCollisionOBB(body, collisionOBBs, frame'.valid)]_vars

\* the head probe of a jump from pos with the given headroom meets nothing
HeadClear(body, pos, headroom) ==
    ~checkVerticalCollisionOBB(body, collisionOBBs,
                               Vec(pos.x, pos.y + headroom, pos.z), "up").collision

\* C20: the Space key, the jump button and the held jump flag a tick consumes
\* set verticalVelocity = jumpStrength and canJump = false only when canJump
\* is true and the head probe meets nothing, and otherwise leave
\* verticalVelocity, canJump and bunnyHopMultiplier as they are; canJump turns
\* true again only by a floor or ground hit of a tick or by the fly key.
C20_JumpGuard ==
    [][/\ KeyDownSpace =>
            IF canJump /\ HeadClear(playerOBB, camPos, TruncDiv(jumpStrength, 10))
            THEN verticalVelocity' = jumpStrength /\ ~canJump'
            ELSE UNCHANGED <<verticalVelocity, canJump, bunnyHopMultiplier>>
       /\ \A b \in BOOLEAN :
            JumpButton(b) =>
                \/ UNCHANGED <<verticalVelocity, canJump, bunnyHopMultiplier>>
                \/ /\ canJump /\ HeadClear(playerOBB, camPos, TruncDiv(jumpStrength, 10))
                   /\ verticalVelocity' = jumpStrength /\ ~canJump'
       /\ \A delta \in Deltas :
            AnimateFPS(delta) =>
                /\ verticalVelocity' = frame'.end.vv
                /\ canJump' = frame'.end.canJump
                /\ IF /\ jumpPressed
                      /\ frame'.phys.canJump
                      /\ HeadClear(playerOBB', camPos', jumpStrength)
                   THEN frame'.end.vv = jumpStrength /\ ~frame'.end.canJump
                   ELSE /\ frame'.end.vv = frame'.phys.vv
                        /\ frame'.end.canJump = frame'.phys.canJump
       /\ (~canJump /\ canJump') =>
            \/ KeyDownAlt
            \/ \E delta \in Deltas : AnimateFPS(delta) /\ frame'.phys.canJump]_vars

\* a player flown up under the ceiling: canJump is true and the head probe of
\* the Space key meets the slab
C20_NoHeadroom ==
    /\ frame.mode = "fps"
    /\ canJump
    /\ verticalVelocity > 0
    /\ ~HeadClear(playerOBB, camPos, TruncDiv(jumpStrength, 10))

\* C21: while the orbit controls are the active controls, no tick of animate()
\* and no jump input (Space key, jump button) changes verticalVelocity, canJump
\* or bunnyHopMultiplier.
C21_OrbitLeavesJumpState ==
    [][(/\ activeControls = "orbit"
        /\ \/ KeyDownSpace
           \/ AnimateOrbit
           \/ \E b \in BOOLEAN : JumpButton(b)) =>
          UNCHANGED <<verticalVelocity, canJump, bunnyHopMultiplier>>]_vars

\* C22: on a tick whose verticalVelocity is positive after gravity, a head
\* probe that hits sets verticalVelocity to 0 and the camera y to ceilingY -
\* playerHeight - 0.1 for the lowest underside ceilingY among the OBBs hit; a
\* probe that hits nothing commits nextY and keeps verticalVelocity.
C22_CeilingClamp ==
    [][\A delta \in Deltas :
          (AnimateFPS(delta) /\ frame'.probe.direction = "up") =>
              LET vv == verticalVelocity + TruncDiv(gravity * delta, 1000)
                  surfaces == frame'.probe.surfaces
              IN  IF surfaces # {}
                  THEN /\ frame'.phys.vv = 0
                       /\ \E ceilingY \in surfaces :
                             /\ \A other \in surfaces : ceilingY <= other
                             /\ frame'.vertical.y = ceilingY - playerHeight - 100
                  ELSE /\ frame'.phys.vv = vv
                       /\ frame'.vertical.y = frame'.valid.y + TruncDiv(vv * delta, 1000)]_vars

\* C23: on every tick in which the player lands (the foot probe hits a floor,
\* or the fallback ground plane catches the player) with none of the four
\* movement flags held, bunnyHopMultiplier is 1 at the end of the tick, with
\* the run flag set or not; with some but not all four flags held a landing
\* tick leaves the multiplier as it was.
C23_BunnyHopReset ==
    [][\A delta \in Deltas :
          (/\ AnimateFPS(delta)
           /\ \/ frame'.phys.plane
              \/ frame'.probe.direction = "down" /\ frame'.probe.surfaces # {}) =>
              /\ ~AnyMove => bunnyHopMultiplier' = 1000
              /\ (AnyMove /\ ~AllMove) => bunnyHopMultiplier' = bunnyHopMultiplier]_vars

\* C24: an Alt keydown in any state sets verticalVelocity to the fly velocity
\* 15 and canJump to true, grounded or not, and leaves the camera position, the
\* movement flags and bunnyHopMultiplier as they are.
C24_FlyInput ==
    [][KeyDownAlt =>
          /\ verticalVelocity' = 15000
          /\ canJump'
          /\ UNCHANGED <<camPos, move, bunnyHopMultiplier>>]_vars

\* the fly key took a player in the air, above the ground plane
C24_FlownInTheAir ==
    /\ activeControls = "fps"
    /\ verticalVelocity = flyVelocity
    /\ canJump
    /\ frame.mode = "fps"
    /\ camPos.y > currentGround

\* C27: at the end of every first-person tick of a player who never used the
\* fly key, canJump is true only if that tick's foot probe hit a floor or the
\* camera is on the fallback ground plane; a player who walked off a ledge
\* without jumping has canJump false while falling.
C27_CanJumpIsGrounded ==
    [][\A delta \in Deltas :
          (AnimateFPS(delta) /\ canJump') =>
              \/ frame'.phys.plane
              \/ frame'.probe.direction = "down" /\ frame'.probe.surfaces # {}]_vars

\* C28: after a tick whose foot probe clamps the player onto a floor, the
\* horizontal test body at the resulting camera position does not intersect
\* the floor the player was put on.
C28_RestingBodyClearsFloor ==
    [][\A delta \in Deltas :
          (/\ AnimateFPS(delta)
           /\ frame'.probe.direction = "down"
           /\ frame'.probe.surfaces # {}
           /\ ~frame'.phys.plane) =>
              LET body == updatePlayerOBB(playerOBB, camPos)
                  floorY == ClosestHeight(frame'.probe.surfaces, "down")
              IN  \A i \in 1..Len(collisionOBBs) :
                      collisionOBBs[i].center.y + collisionOBBs[i].extents.y = floorY =>
                          ~checkHorizontalCollisionOBB(body, <<collisionOBBs[i]>>,
                                                       frame'.phys.pos)]_vars

\* whether mesh is the wireframe createDebugMesh builds for obb
WireframeOf(mesh, obb) ==
    /\ mesh.position = obb.center
    /\ mesh.size = ScaleVec(obb.extents, 2)
    /\ mesh.rotation = obb.rotation

\* C26: in main.js and part_000, after any sequence of addOBBCollision,
\* removeOBBCollision, clearAllOBBCollisions and KeyB toggles, a non-empty
\* debugMeshes is as long as collisionOBBs and debugMeshes[i] is the wireframe
\* of collisionOBBs[i]; removeOBBCollision takes from the scene the debug mesh
\* of exactly the OBB it removed.
C26_DebugMeshesParallel ==
    [][DebugMeshesDeclared =>
          /\ debugMeshes' # <<>> =>
                /\ Len(debugMeshes') = Len(collisionOBBs')
                /\ \A i \in 1..Len(debugMeshes') :
                      WireframeOf(debugMeshes'[i], collisionOBBs'[i])
          /\ \A object \in ConsoleMeshes :
                (removeOBBCollision(object) /\ lastLog'.index # 0 /\ debugMeshes # <<>>) =>
                    /\ WireframeOf(debugMeshes[lastLog'.index], collisionOBBs[lastLog'.index])
                    /\ sceneChildren' = sceneChildren \ {debugMeshes[lastLog'.index]}
                    /\ debugMeshes[lastLog'.index] \in sceneChildren]_vars

\* the second of two registered objects was removed with the debug flag on
C26_RemovedWithMeshes ==
    /\ DebugMeshesDeclared
    /\ debugColliders
    /\ lastLog # NoLog
    /\ lastLog.query = "removeOBBCollision"
    /\ lastLog.index = 2
    /\ Len(debugMeshes) = 1
    /\ Len(collisionOBBs) = 1

\* C25: in SHD.js, after every call of updateDynamicDebugOBBs with the debug
\* flag on, the OBBs with a debug mesh in the scene are exactly the registry
\* OBBs within 50 of the camera, an OBB that had a mesh and is still in range
\* keeps the same mesh object, and the meshes dropped leave the scene; with the
\* flag off no OBB has a mesh after the call.
C25_ProximityDebugMeshes ==
    [][(/\ variant = "SHD"
        /\ UNCHANGED <<collisionOBBs, debugColliders, lastLog>>
        /\ \/ AnimateOrbit
           \/ \E delta \in Deltas : AnimateFPS(delta)) =>
          LET position == IF frame'.mode = "fps" THEN frame'.render ELSE camPos'
              near == {obb \in Range(collisionOBBs) :
                          LET d == SubVec(position, obb.center)
                          IN  (d.x \div 10) * (d.x \div 10) + (d.y \div 10) * (d.y \div 10)
                                  + (d.z \div 10) * (d.z \div 10) <= 5000 * 5000}
          IN  IF debugColliders
              THEN /\ {entry.obb : entry \in visibleDebugMeshes'} = near
                   /\ Cardinality(visibleDebugMeshes') = Cardinality(near)
                   /\ \A entry \in visibleDebugMeshes :
                         entry.obb \in near => entry \in visibleDebugMeshes'
                   /\ \A entry \in visibleDebugMeshes' : entry.mesh \in sceneChildren'
                   /\ \A entry \in visibleDebugMeshes \ visibleDebugMeshes' :
                         entry.mesh \notin sceneChildren'
              ELSE /\ visibleDebugMeshes' = {}
                   /\ sceneChildren' = {}]_vars

\* a frame kept the first mesh built while the second, built later, was dropped
C25_OlderMeshKept ==
    /\ variant = "SHD"
    /\ debugColliders
    /\ frame # NoFrame
    /\ meshesMade = 2
    /\ Len(collisionOBBs) = 1
    /\ \E entry \in visibleDebugMeshes :
          /\ visibleDebugMeshes = {entry}
          /\ entry.mesh.id = 1
          /\ entry.obb = collisionOBBs[1]

\* C29: in SHD.js, over any interleaving of view-tween starts, tween callbacks,
\* mode switches and ticks, the orbit controls stay disabled while the
\* first-person mode is active, and a first-person tick starts from the camera
\* position the last tick or activateFPSControls left: a tween in flight does
\* not overwrite it and does not enable the orbit controls when it completes.
C29_CameraOwnership ==
    [][/\ activeControls' = "fps" => ~orbitEnabled'
       /\ \A delta \in ViewDeltas : AnimateFPS(delta) => frame'.start = camPos]_vars

\* C30: over any interleaving of updateAreaPrompt calls and the callbacks they
\* schedule, once no callback is pending the prompt is displayed if and only
\* if currentAreaName is non-empty, and currentAreaName is the name of the
\* first listed area whose XZ rectangle held the camera at the last update
\* (empty if none): a hide callback scheduled on leaving an area never hides
\* the prompt of an area entered before it fires.
C30_PromptVisibility ==
    /\ (pending.show = 0 /\ pending.hide = <<>>) =>
          (areaPrompt.display = "block" <=> currentAreaName # "")
    /\ (variant # "main" /\ frame # NoFrame /\ frame.mode = "fps") =>
          currentAreaName =
              IF /\ frame.start.x >= 102000 /\ frame.start.x <= 112000
                 /\ frame.start.z >= 5500 /\ frame.start.z <= 9000
              THEN "Academic Block - 2"
              ELSE ""

=============================================================================
